---- MODULE Spec2Model ----
(***************************************************************************)
(* Model of the music-video generator: the edit-decision validator of      *)
(* services/geminiService.ts (createVideoSequence), the video-analysis     *)
(* worker and its task registry (services/videoAnalysisService.ts) and the *)
(* clip-ingest handler of App.tsx (handleClipsAdded).                      *)
(***************************************************************************)
EXTENDS Integers, Sequences, FiniteSets, TLC

VARIABLES
    seqPc,          \* createVideoSequence: "idle" | "awaitingOracle" | "settled"
    seqClips,       \* clips.length of the call in progress
    seqResponse,    \* what generateContent produced for the call
    seqOutcome,     \* the settled promise of createVideoSequence
    oracleRequests, \* number of generateContent requests of the call
    workerSupported, \* the environment: whether `new Worker` succeeds
    worker,         \* videoAnalysisService: the module-level worker, "null" or "worker"
    workersCreated, \* number of Worker objects constructed
    runningTasks,   \* the in-flight registry: fileId -> the caller whose promise it settles
    promises,       \* per caller, the promise analyzeVideoContent returned to it last
    workerInbox,    \* messages posted to the worker and not yet delivered
    workerTasks,    \* invocations of the worker's onmessage suspended at an await, by arrival
    modelsLoaded,   \* the worker's modelsLoaded flag
    loadBodyRuns,   \* number of times the loading body of loadModels was entered
    mainInbox,      \* messages posted by the worker and not yet delivered
    clipLibrary,    \* App state: the clip library
    isProcessingClips, \* App state
    clipError,      \* App state: error, as set by handleClipsAdded
    dbClips,        \* the clips store of IndexedDB
    calls,          \* the invocations of handleClipsAdded
    anBuffer,       \* audio analysis: the AudioBuffer given to analyzeEnergy and analyzeBeats
    anRendered,     \* the channel data startRendering() produced for that buffer
    anEnergy,       \* what analyzeEnergy returned
    anBeats,        \* what the promise of analyzeBeats resolved with
    step,           \* App state: the create step
    audioAnalysis,  \* App state: the AudioAnalysis handed to handleAudioSubmit
    audPc,          \* AudioUpload.handleSubmit: "idle" | "decoding" | "rendering"
    audBuffer,      \* analyzeAudio: the decoded buffer
    audRendered,    \* analyzeBeats: what startRendering() settled with
    audEnergy,      \* analyzeAudio: what analyzeEnergy returned
    decodeAttempts, \* calls of decodeAudioData made for the current submit
    isAnalyzingAudio, \* AudioUpload state
    uploadError,    \* AudioUpload state: error
    submits,        \* number of handleSubmit calls so far
    history,        \* App state: the generated videos, newest first
    dbHistory,      \* the history store of IndexedDB
    currentPreview, \* App state
    vidPc,          \* handleVideosSubmit, by call: "idle" | "awaitSequence" | "awaitDb"
    vidFiles,       \* handleVideosSubmit, by call: files
    vidSelected,    \* handleVideosSubmit, by call: selectedClipsMetadata
    vidNewVideo,    \* handleVideosSubmit, by call: newVideo
    vidAudioAnalysis, \* handleVideosSubmit, by call: audioAnalysis of its closure
    vidRequests,    \* generateContent requests made for the call
    generations,    \* number of handleVideosSubmit calls so far
    view,           \* App state: "CREATE" | "HISTORY" | "CLIP_LIBRARY"
    frDuration,     \* worker, self.onmessage: duration
    frameTimes,     \* worker, self.onmessage: frameTimes
    frPosted,       \* worker, self.onmessage: what postMessage sent for these frames
    clObjects,      \* classifyObjects: objects, by class
    clCategory      \* classifyObjects: the value returned

seqVars == <<seqPc, seqClips, seqResponse, seqOutcome, oracleRequests>>

serviceVars == <<workerSupported, worker, workersCreated, runningTasks, promises, workerInbox>>

workerVars == <<workerTasks, modelsLoaded, loadBodyRuns, mainInbox>>

appVars == <<clipLibrary, isProcessingClips, clipError, dbClips, calls>>

analysisVars == <<anBuffer, anRendered, anEnergy, anBeats>>

\* The state outside the edit-decision validator, the analysis service and
\* the clip-ingest handler.
audioVars ==
    <<step, audioAnalysis, audPc, audBuffer, audRendered, audEnergy, decodeAttempts,
      isAnalyzingAudio, uploadError, submits>>

createVars ==
    <<history, dbHistory, currentPreview, vidPc, vidFiles, vidSelected, vidNewVideo,
      vidAudioAnalysis, vidRequests, generations, view>>

frameVars == <<frDuration, frameTimes, frPosted, clObjects, clCategory>>

otherVars == <<analysisVars, audioVars, createVars, frameVars>>

vars == <<seqVars, serviceVars, workerVars, appVars, otherVars>>

-----------------------------------------------------------------------------
(* Bounds *)

\* longest raw decision list the oracle returns
MaxEntries == 2
\* largest clips.length handed to createVideoSequence
MaxClips == 3
\* invocations of handleClipsAdded in one run
MaxCalls == 2
\* most files in one invocation of handleClipsAdded
MaxBatch == 2
\* samples in an AudioBuffer
MaxSamples == 5
\* handleSubmit calls of AudioUpload
MaxSubmits == 2
\* handleVideosSubmit calls
MaxGenerations == 2
\* doubles on each side of 0.5 and of 0.2 taken as durations
MaxUlps == 3
\* multiples of 1/8 s and of 0.1 s taken as durations
MaxTicks == 40
\* objects the detector reports for a frame
MaxObjects == 2

-----------------------------------------------------------------------------
(* JavaScript values as JSON.parse produces them.  A number is kept in     *)
(* halves (h = 2 * value) so that non-integers such as 1.5 exist; the      *)
(* non-finite numbers are Infinity, -Infinity (JSON.parse("1e999")) and    *)
(* NaN (only ever a result of %).                                          *)

Undefined == [t |-> "undefined"]
JNull == [t |-> "null"]
JStr(s) == [t |-> "string", s |-> s]
JNum(h) == [t |-> "number", k |-> "fin", h |-> h]
JInf(sign) == [t |-> "number", k |-> "inf", h |-> sign]
JNaN == [t |-> "number", k |-> "nan", h |-> 0]
JObj(ci, du, de) == [t |-> "object", clipIndex |-> ci, duration |-> du, description |-> de]
JArr(items) == [t |-> "array", items |-> items]

\* typeof v
TypeOf(v) ==
    CASE v.t \in {"null", "object", "array"} -> "object"
      [] OTHER -> v.t

\* item?.field
Get(item, field) ==
    IF item.t = "object" THEN item[field] ELSE Undefined

\* 'field' in obj, for an object that JSON.parse built
HasField(obj, field) == obj.t = "object" /\ obj[field] # Undefined

\* Array.isArray(v)
IsArray(v) == v.t = "array"

\* x <= 0 on numbers (every comparison with NaN is false)
LeqZero(x) ==
    CASE x.k = "fin" -> x.h <= 0
      [] x.k = "inf" -> x.h < 0
      [] OTHER -> FALSE

\* Math.abs(x)
MathAbs(x) ==
    CASE x.k = "fin" -> JNum(IF x.h < 0 THEN -x.h ELSE x.h)
      [] x.k = "inf" -> JInf(1)
      [] OTHER -> JNaN

\* x % len for a non-negative x and an array length len
Rem(x, len) ==
    IF x.k = "fin" /\ len > 0 THEN JNum(x.h % (2 * len)) ELSE JNaN

-----------------------------------------------------------------------------
(* Error messages, word by word, and String.prototype.includes on them.    *)

MsgUnexpectedFormat == <<"The", "AI", "returned", "a", "response", "in", "an", "unexpected", "format">>
MsgNotArray == <<"AI", "response", "is", "not", "a", "valid", "array", "of", "edit", "decisions">>
MsgNoValidSequence == <<"The", "AI", "failed", "to", "generate", "a", "valid", "video", "sequence">>
MsgSafety == <<"The", "request", "was", "blocked", "due", "to", "safety", "policies">>
MsgUnable == <<"The", "AI", "was", "unable", "to", "create", "a", "video", "sequence">>
MsgApiBlocked == <<"Candidate", "was", "blocked", "due", "to", "SAFETY">>
MsgApiNetwork == <<"fetch", "failed">>
MsgTypeError == <<"Cannot", "read", "properties", "of", "undefined">>
MsgApiKey == <<"API_KEY", "environment", "variable", "not", "set">>

Includes(msg, phrase) ==
    \E i \in 0..(Len(msg) - Len(phrase)) :
        \A j \in 1..Len(phrase) : msg[i + j] = phrase[j]

-----------------------------------------------------------------------------
(* createVideoSequence (services/geminiService.ts)                         *)

\* The structural check of one raw item: TRUE when the item is kept.
StructurallyValid(item) ==
    ~ ( \/ TypeOf(Get(item, "clipIndex")) # "number"
        \/ TypeOf(Get(item, "duration")) # "number"
        \/ LeqZero(Get(item, "duration"))
        \/ TypeOf(Get(item, "description")) # "string" )

\* The callback of .map(): null for a malformed item, else the repaired decision.
RepairItem(item, len) ==
    IF ~StructurallyValid(item)
    THEN JNull
    ELSE [t |-> "decision",
          clipIndex |-> Rem(MathAbs(item.clipIndex), len),
          duration |-> item.duration,
          description |-> item.description]

\* parsedJson.map(...)
RECURSIVE MapRepair(_, _)
MapRepair(items, len) ==
    IF items = <<>> THEN <<>>
    ELSE <<RepairItem(Head(items), len)>> \o MapRepair(Tail(items), len)

\* A filter that gives up at the first malformed item (rejects what follows it).
RECURSIVE FilterUntilNull(_)
FilterUntilNull(items) ==
    IF items = <<>> \/ Head(items) = JNull THEN <<>>
    ELSE <<Head(items)>> \o FilterUntilNull(Tail(items))

\* .filter(item => item !== null)
RECURSIVE FilterNotNull(_)
FilterNotNull(items) ==
    IF items = <<>> THEN <<>>
    ELSE (IF Head(items) # JNull THEN <<Head(items)>> ELSE <<>>) \o FilterNotNull(Tail(items))

repairedAndValidatedDecisions(items, len) == FilterNotNull(MapRepair(items, len))

Thrown(msg) == [thrown |-> TRUE, message |-> msg]
Returned(list) == [thrown |-> FALSE, list |-> list]

\* The single-object leniency: the array that the validation runs on, or a throw.
WrapParsedJson(parsedJson) ==
    IF IsArray(parsedJson)
    THEN Returned(parsedJson.items)
    ELSE IF TypeOf(parsedJson) = "object" /\ parsedJson # JNull /\ HasField(parsedJson, "clipIndex")
         THEN Returned(<<parsedJson>>)
         ELSE Thrown(MsgNotArray)

\* The body of the try block, from the oracle's response on.
\* A response is [kind |-> "apiError", message], [kind |-> "noText"],
\* [kind |-> "notJson"] or [kind |-> "json", value].
TryBody(response, len) ==
    CASE response.kind = "apiError" -> Thrown(response.message)
      [] response.kind = "noText" -> Thrown(MsgTypeError)
      [] response.kind = "notJson" -> Thrown(MsgUnexpectedFormat)
      [] OTHER ->
            LET wrapped == WrapParsedJson(response.value) IN
            IF wrapped.thrown THEN wrapped
            ELSE LET decisions == repairedAndValidatedDecisions(wrapped.list, len) IN
                 IF Len(decisions) = 0 THEN Thrown(MsgNoValidSequence)
                 ELSE Returned(decisions)

\* A catch block that re-throws only the parse error.
CatchBlockForgetsSequenceError(message) ==
    IF Includes(message, <<"SAFETY">>)
    THEN MsgSafety
    ELSE IF Includes(message, <<"unexpected", "format">>)
         THEN message
         ELSE MsgUnable

\* The catch block: which error the caller sees for a thrown message.
CatchBlock(message) ==
    IF Includes(message, <<"SAFETY">>)
    THEN MsgSafety
    ELSE IF Includes(message, <<"unexpected", "format">>) \/ Includes(message, <<"valid", "video", "sequence">>)
         THEN message
         ELSE MsgUnable

\* The promise createVideoSequence settles with, given the oracle's response.
createVideoSequence(response, len) ==
    LET r == TryBody(response, len) IN
    IF r.thrown
    THEN [ok |-> FALSE, message |-> CatchBlock(r.message)]
    ELSE [ok |-> TRUE, list |-> r.list]

-----------------------------------------------------------------------------
(* Inputs: raw items and oracle responses.                                 *)

ClipIndexValues == {JNum(-10), JNum(0), JNum(3), JNum(8), JInf(1), JStr("1"), Undefined}
DurationValues == {JNum(6), JNum(0), JNum(-2), JInf(1), JInf(-1), JStr("2"), Undefined}
DescriptionValues == {JStr("zoom"), JStr(""), JNum(2), Undefined}

RawItems ==
    {JObj(ci, JNum(4), JStr("cut")) : ci \in ClipIndexValues}
    \cup {JObj(JNum(2), du, JStr("pan")) : du \in DurationValues}
    \cup {JObj(JNum(4), JNum(1), de) : de \in DescriptionValues}
    \cup {JNull, JStr("cut"), JNum(2)}

RECURSIVE SeqsUpTo(_, _)
SeqsUpTo(S, n) ==
    IF n = 0 THEN {<<>>}
    ELSE LET shorter == SeqsUpTo(S, n - 1) IN
         shorter \cup {Append(s, x) : s \in {q \in shorter : Len(q) = n - 1}, x \in S}

ParsedValues == {JArr(items) : items \in SeqsUpTo(RawItems, MaxEntries)} \cup RawItems

OracleResponses ==
    {[kind |-> "apiError", message |-> m] : m \in {MsgApiBlocked, MsgApiNetwork}}
    \cup {[kind |-> "noText"], [kind |-> "notJson"]}
    \cup {[kind |-> "json", value |-> v] : v \in ParsedValues}

NoResponse == [kind |-> "none"]
NoOutcome == [ok |-> FALSE, message |-> <<>>]

-----------------------------------------------------------------------------
(* The call of createVideoSequence as a process.                           *)

\* createVideoSequence is called with len clips; getGenAI() throws before
\* any request when the API key is missing.
CallCreateVideoSequence(len, apiKeySet) ==
    /\ seqPc = "idle"
    /\ seqClips' = len
    /\ seqResponse' = NoResponse
    /\ IF apiKeySet
       THEN /\ seqPc' = "awaitingOracle"
            /\ oracleRequests' = 1
            /\ seqOutcome' = NoOutcome
       ELSE /\ seqPc' = "settled"
            /\ oracleRequests' = 0
            /\ seqOutcome' = [ok |-> FALSE, message |-> MsgApiKey]
    /\ UNCHANGED <<serviceVars, workerVars, appVars, otherVars>>

\* generateContent settles; the rest of createVideoSequence runs.
OracleResponds(response) ==
    /\ seqPc = "awaitingOracle"
    /\ seqResponse' = response
    /\ seqOutcome' = createVideoSequence(response, seqClips)
    /\ seqPc' = "settled"
    /\ UNCHANGED <<seqClips, oracleRequests>>
    /\ UNCHANGED <<serviceVars, workerVars, appVars, otherVars>>

\* The caller has consumed the outcome; another call can be made.
SequenceConsumed ==
    /\ seqPc = "settled"
    /\ seqPc' = "idle"
    /\ seqClips' = 0
    /\ seqResponse' = NoResponse
    /\ seqOutcome' = NoOutcome
    /\ oracleRequests' = 0
    /\ UNCHANGED <<serviceVars, workerVars, appVars, otherVars>>

SeqInit ==
    /\ seqPc = "idle"
    /\ seqClips = 0
    /\ seqResponse = NoResponse
    /\ seqOutcome = NoOutcome
    /\ oracleRequests = 0

SeqNext ==
    \/ \E len \in 0..MaxClips, apiKeySet \in BOOLEAN : CallCreateVideoSequence(len, apiKeySet)
    \/ \E response \in OracleResponses : OracleResponds(response)
    \/ SequenceConsumed

-----------------------------------------------------------------------------
(* Files and their keys.  A template string is kept as the tuple of its    *)
(* parts, separators included.                                             *)

Files ==
    { [name |-> "a.mp4", lastModified |-> 1, size |-> 10],
      [name |-> "a.mp4", lastModified |-> 1, size |-> 20],
      [name |-> "b.mp4", lastModified |-> 1, size |-> 10] }

\* `${file.name}-${file.lastModified}-${file.size}`
FileId(file) == <<file.name, "-", file.lastModified, "-", file.size>>

\* `${file.name}-${file.lastModified}`
ClipId(file) == <<file.name, "-", file.lastModified>>

Batches == SeqsUpTo(Files, MaxBatch) \ {<<>>}

MsgAlready == <<"This", "clip", "is", "already", "being", "analyzed">>
MsgWorkerUnavailable == <<"Video", "analysis", "worker", "is", "not", "available">>
MsgLoadFailed == <<"Failed", "to", "load", "AI", "models", "for", "video", "analysis">>
MsgVideoFileError == <<"Video", "file", "error", "in", "worker">>
MsgNotDefined == <<"analyzeSobel", "is", "not", "defined">>
MsgMetadataFailed == <<"Failed", "to", "load", "video", "metadata">>
MsgDbError == <<"IndexedDB", "request", "failed">>

-----------------------------------------------------------------------------
(* videoAnalysisService, main thread: getWorker and analyzeVideoContent.   *)

NoPromise == [fileId |-> <<>>, state |-> "none", value |-> <<>>]
Pending(fileId) == [fileId |-> fileId, state |-> "pending", value |-> <<>>]
Rejected(fileId, msg) == [fileId |-> fileId, state |-> "rejected", value |-> msg]

MapSet(f, k, v) == [x \in DOMAIN f \cup {k} |-> IF x = k THEN v ELSE f[x]]
MapDelete(f, k) == [x \in DOMAIN f \ {k} |-> f[x]]

\* getWorker(): the worker after the call; the constructor throws where
\* workers are not supported, and worker stays null.
getWorker ==
    IF worker = "null" /\ workerSupported THEN "worker" ELSE worker

\* analyzeVideoContent without the runningTasks.has(fileId) test.
analyzeVideoContentNoCheck(c, file) ==
    LET workerInstance == getWorker
        fileId == FileId(file)
    IN  /\ worker' = workerInstance
        /\ workersCreated' = IF worker = "null" /\ workerInstance # "null"
                             THEN workersCreated + 1 ELSE workersCreated
        /\ UNCHANGED workerSupported
        /\ IF workerInstance = "null"
           THEN /\ promises' = [promises EXCEPT ![c] = Rejected(fileId, MsgWorkerUnavailable)]
                /\ UNCHANGED <<runningTasks, workerInbox>>
           ELSE /\ promises' = [promises EXCEPT ![c] = Pending(fileId)]
                /\ runningTasks' = MapSet(runningTasks, fileId, c)
                /\ workerInbox' = Append(workerInbox, [file |-> file, fileId |-> fileId])

\* analyzeVideoContent hooking a duplicate submission into the registry entry
\* instead of rejecting it.
analyzeVideoContentAttaches(c, file) ==
    LET workerInstance == getWorker
        fileId == FileId(file)
    IN  /\ worker' = workerInstance
        /\ workersCreated' = IF worker = "null" /\ workerInstance # "null"
                             THEN workersCreated + 1 ELSE workersCreated
        /\ UNCHANGED workerSupported
        /\ IF workerInstance = "null"
           THEN /\ promises' = [promises EXCEPT ![c] = Rejected(fileId, MsgWorkerUnavailable)]
                /\ UNCHANGED <<runningTasks, workerInbox>>
           ELSE /\ promises' = [promises EXCEPT ![c] = Pending(fileId)]
                /\ runningTasks' = MapSet(runningTasks, fileId, c)
                /\ workerInbox' = IF fileId \in DOMAIN runningTasks
                                  THEN workerInbox
                                  ELSE Append(workerInbox, [file |-> file, fileId |-> fileId])

\* analyzeVideoContent(file), called by invocation c of handleClipsAdded: it
\* runs to its return without a suspension point.
analyzeVideoContent(c, file) ==
    LET workerInstance == getWorker
        fileId == FileId(file)
    IN  /\ worker' = workerInstance
        /\ workersCreated' = IF worker = "null" /\ workerInstance # "null"
                             THEN workersCreated + 1 ELSE workersCreated
        /\ UNCHANGED workerSupported
        /\ IF workerInstance = "null"
           THEN /\ promises' = [promises EXCEPT ![c] = Rejected(fileId, MsgWorkerUnavailable)]
                /\ UNCHANGED <<runningTasks, workerInbox>>
           ELSE IF fileId \in DOMAIN runningTasks
                THEN /\ promises' = [promises EXCEPT ![c] = Rejected(fileId, MsgAlready)]
                     /\ UNCHANGED <<runningTasks, workerInbox>>
                ELSE /\ promises' = [promises EXCEPT ![c] = Pending(fileId)]
                     /\ runningTasks' = MapSet(runningTasks, fileId, c)
                     /\ workerInbox' = Append(workerInbox, [file |-> file, fileId |-> fileId])

\* worker.onmessage without runningTasks.delete(fileId).
workerOnMessageKeepsTask ==
    /\ mainInbox # <<>>
    /\ LET data == Head(mainInbox) IN
       /\ mainInbox' = Tail(mainInbox)
       /\ IF data.fileId \in DOMAIN runningTasks
          THEN LET task == runningTasks[data.fileId] IN
               /\ promises' = [promises EXCEPT ![task] =
                      IF data.success
                      THEN [@ EXCEPT !.state = "resolved", !.value = data.analysis]
                      ELSE [@ EXCEPT !.state = "rejected", !.value = data.error]]
               /\ UNCHANGED runningTasks
          ELSE UNCHANGED <<promises, runningTasks>>
    /\ UNCHANGED <<workerSupported, worker, workersCreated, workerInbox>>
    /\ UNCHANGED <<workerTasks, modelsLoaded, loadBodyRuns>>
    /\ UNCHANGED <<otherVars, seqVars, appVars>>

\* worker.onmessage on the main thread: routes a result to its promise.
workerOnMessage ==
    /\ mainInbox # <<>>
    /\ LET data == Head(mainInbox) IN
       /\ mainInbox' = Tail(mainInbox)
       /\ IF data.fileId \in DOMAIN runningTasks
          THEN LET task == runningTasks[data.fileId] IN
               /\ promises' = [promises EXCEPT ![task] =
                      IF data.success
                      THEN [@ EXCEPT !.state = "resolved", !.value = data.analysis]
                      ELSE [@ EXCEPT !.state = "rejected", !.value = data.error]]
               /\ runningTasks' = MapDelete(runningTasks, data.fileId)
          ELSE UNCHANGED <<promises, runningTasks>>
    /\ UNCHANGED <<workerSupported, worker, workersCreated, workerInbox>>
    /\ UNCHANGED <<workerTasks, modelsLoaded, loadBodyRuns>>
    /\ UNCHANGED <<otherVars, seqVars, appVars>>

-----------------------------------------------------------------------------
(* The worker script.                                                      *)

\* The functions the worker script declares.
WorkerFunctions ==
    {"loadModels", "extractFrameData", "analyzeBrightness", "applySobel",
     "calculateMotion", "classifyObjects"}

Success(fileId, analysis) ==
    [fileId |-> fileId, success |-> TRUE, analysis |-> analysis, error |-> <<>>]
Failure(fileId, msg) ==
    [fileId |-> fileId, success |-> FALSE, analysis |-> <<>>, error |-> msg]

\* The analysis of the sampled frames: it throws when a frame cannot be
\* extracted, and when it calls a function the script does not declare.
AnalysisMessage(fileId, framesOk) ==
    IF ~framesOk THEN Failure(fileId, MsgVideoFileError)
    ELSE IF "analyzeSobel" \notin WorkerFunctions THEN Failure(fileId, MsgNotDefined)
    ELSE Success(fileId, <<"analysis", fileId>>)

\* self.onmessage up to the first suspension: loadModels() returns at once
\* when modelsLoaded, else it enters its loading body.
selfOnMessage ==
    /\ workerInbox # <<>>
    /\ LET data == Head(workerInbox) IN
       /\ workerInbox' = Tail(workerInbox)
       /\ IF modelsLoaded
          THEN /\ workerTasks' = Append(workerTasks, [fileId |-> data.fileId, pc |-> "analyzing"])
               /\ UNCHANGED loadBodyRuns
          ELSE /\ workerTasks' = Append(workerTasks, [fileId |-> data.fileId, pc |-> "loading"])
               /\ loadBodyRuns' = loadBodyRuns + 1
    /\ UNCHANGED <<modelsLoaded, mainInbox>>
    /\ UNCHANGED <<workerSupported, worker, workersCreated, runningTasks, promises>>
    /\ UNCHANGED <<otherVars, seqVars, appVars>>

RemoveAt(seq, i) == SubSeq(seq, 1, i - 1) \o SubSeq(seq, i + 1, Len(seq))

\* The loading body of loadModels settles for the suspended invocation t.
loadModels(t, ok) ==
    /\ t \in DOMAIN workerTasks
    /\ workerTasks[t].pc = "loading"
    /\ IF ok
       THEN /\ modelsLoaded' = TRUE
            /\ workerTasks' = [workerTasks EXCEPT ![t].pc = "analyzing"]
            /\ UNCHANGED mainInbox
       ELSE /\ workerTasks' = RemoveAt(workerTasks, t)
            /\ mainInbox' = Append(mainInbox, Failure(workerTasks[t].fileId, MsgLoadFailed))
            /\ UNCHANGED modelsLoaded
    /\ UNCHANGED loadBodyRuns
    /\ UNCHANGED <<otherVars, seqVars, serviceVars, appVars>>

\* self.onmessage whose catch block posts nothing.
selfOnMessageEndsSilently(t, framesOk) ==
    /\ t \in DOMAIN workerTasks
    /\ workerTasks[t].pc = "analyzing"
    /\ workerTasks' = RemoveAt(workerTasks, t)
    /\ mainInbox' = IF AnalysisMessage(workerTasks[t].fileId, framesOk).success
                    THEN Append(mainInbox, AnalysisMessage(workerTasks[t].fileId, framesOk))
                    ELSE mainInbox
    /\ UNCHANGED <<modelsLoaded, loadBodyRuns>>
    /\ UNCHANGED <<otherVars, seqVars, serviceVars, appVars>>

\* The rest of self.onmessage: frames, detection, metrics, postMessage.
selfOnMessageEnds(t, framesOk) ==
    /\ t \in DOMAIN workerTasks
    /\ workerTasks[t].pc = "analyzing"
    /\ workerTasks' = RemoveAt(workerTasks, t)
    /\ mainInbox' = Append(mainInbox, AnalysisMessage(workerTasks[t].fileId, framesOk))
    /\ UNCHANGED <<modelsLoaded, loadBodyRuns>>
    /\ UNCHANGED <<otherVars, seqVars, serviceVars, appVars>>

-----------------------------------------------------------------------------
(* App.tsx: handleClipsAdded.                                              *)

NoCall ==
    [pc |-> "unused", trulyNewFiles |-> <<>>, failed |-> {}, index |-> 0, posted |-> {}]

\* The positions of the batch whose analysis request went to the worker,
\* after a call of analyzeVideoContent for position index.
Posted(posted, index) ==
    IF workerInbox' # workerInbox THEN posted \cup {index} ELSE posted

NoAnalysis == <<>>

\* getClipMetadata(file), when it resolves
getClipMetadata(file) == [id |-> ClipId(file), file |-> file, analysis |-> NoAnalysis]

RECURSIVE MapMetadata(_)
MapMetadata(files) ==
    IF files = <<>> THEN <<>>
    ELSE <<getClipMetadata(Head(files))>> \o MapMetadata(Tail(files))

\* prev.map(c => c.id === enriched.id ? enriched : c)
ReplaceById(library, enriched) ==
    [i \in DOMAIN library |-> IF library[i].id = enriched.id THEN enriched ELSE library[i]]

\* The catch block and the statement after it.
ClipsCatch(c, msg, failed) ==
    /\ clipError' = <<"Clip", "Processing", "Error">> \o msg
    /\ isProcessingClips' = FALSE
    /\ calls' = [calls EXCEPT ![c].pc = "done", ![c].failed = failed]

\* handleClipsAdded(newFiles), up to its first await.
handleClipsAdded(c, newFiles) ==
    /\ calls[c].pc = "unused"
    /\ \A d \in 1..(c - 1) : calls[d].pc # "unused"
    /\ clipError' = <<>>
    /\ LET existingIds == {clipLibrary[i].id : i \in DOMAIN clipLibrary}
           IsNew(f) == ClipId(f) \notin existingIds
           trulyNewFiles == SelectSeq(newFiles, IsNew)
       IN  IF Len(trulyNewFiles) > 0
           THEN /\ isProcessingClips' = TRUE
                /\ calls' = [calls EXCEPT ![c] =
                       [NoCall EXCEPT !.pc = "awaitMetadata", !.trulyNewFiles = trulyNewFiles]]
           ELSE /\ isProcessingClips' = FALSE
                /\ calls' = [calls EXCEPT ![c] =
                       [NoCall EXCEPT !.pc = "done"]]
    /\ UNCHANGED <<clipLibrary, dbClips>>
    /\ UNCHANGED <<otherVars, seqVars, serviceVars, workerVars>>

\* Promise.all(trulyNewFiles.map(getClipMetadata)) settles; failed is the set
\* of positions whose getClipMetadata rejected.  On success the clips join
\* the library and the loop starts with the first analyzeVideoContent call.
handleClipsAddedMetadata(c, failed) ==
    /\ calls[c].pc = "awaitMetadata"
    /\ failed \subseteq 1..Len(calls[c].trulyNewFiles)
    /\ IF failed = {}
       THEN LET newMetadatas == MapMetadata(calls[c].trulyNewFiles) IN
            /\ clipLibrary' = clipLibrary \o newMetadatas
            /\ analyzeVideoContent(c, newMetadatas[1].file)
            /\ calls' = [calls EXCEPT ![c].pc = "awaitAnalysis",
                                      ![c].index = 1,
                                      ![c].posted = Posted(@, 1)]
            /\ UNCHANGED <<isProcessingClips, clipError>>
       ELSE /\ ClipsCatch(c, MsgMetadataFailed, failed)
            /\ UNCHANGED <<clipLibrary, serviceVars>>
    /\ UNCHANGED dbClips
    /\ UNCHANGED <<otherVars, seqVars, workerVars>>

\* The for loop resumes: after `await analyzeVideoContent` (the promise of
\* the current clip has settled) or after `await db.addClip` (dbOk).
handleClipsAddedLoop(c, dbOk) ==
    /\ calls[c].pc \in {"awaitAnalysis", "awaitDb"}
    /\ LET call == calls[c]
           newMetadatas == MapMetadata(call.trulyNewFiles)
           metadata == newMetadatas[call.index]
           settled == promises[c]
       IN  IF call.pc = "awaitAnalysis"
           THEN /\ settled.state # "pending"
                /\ IF settled.state = "resolved"
                   THEN /\ clipLibrary' = ReplaceById(clipLibrary,
                               [metadata EXCEPT !.analysis = settled.value])
                        /\ calls' = [calls EXCEPT ![c].pc = "awaitDb"]
                        /\ UNCHANGED <<isProcessingClips, clipError>>
                        /\ UNCHANGED promises
                   ELSE /\ ClipsCatch(c, settled.value, {call.index})
                        /\ promises' = [promises EXCEPT ![c] = NoPromise]
                        /\ UNCHANGED clipLibrary
                /\ UNCHANGED <<dbClips, workerSupported, worker, workersCreated, runningTasks, workerInbox>>
           ELSE IF ~dbOk
                THEN /\ ClipsCatch(c, MsgDbError, {})
                     /\ promises' = [promises EXCEPT ![c] = NoPromise]
                     /\ UNCHANGED <<clipLibrary, dbClips>>
                     /\ UNCHANGED <<workerSupported, worker, workersCreated, runningTasks, workerInbox>>
                ELSE /\ dbClips' = dbClips \cup {[metadata EXCEPT !.analysis = settled.value]}
                     /\ IF call.index < Len(newMetadatas)
                        THEN /\ analyzeVideoContent(c, newMetadatas[call.index + 1].file)
                             /\ calls' = [calls EXCEPT ![c].pc = "awaitAnalysis",
                                                       ![c].index = call.index + 1,
                                                       ![c].posted = Posted(@, call.index + 1)]
                             /\ UNCHANGED <<isProcessingClips, clipError>>
                        ELSE /\ isProcessingClips' = FALSE
                             /\ calls' = [calls EXCEPT ![c].pc = "done"]
                             /\ promises' = [promises EXCEPT ![c] = NoPromise]
                             /\ UNCHANGED clipError
                             /\ UNCHANGED <<workerSupported, worker, workersCreated, runningTasks, workerInbox>>
                     /\ UNCHANGED clipLibrary
    /\ UNCHANGED <<otherVars, seqVars, workerVars>>

-----------------------------------------------------------------------------
(* audioAnalysisService: analyzeEnergy and analyzeBeats.  A sample is kept  *)
(* in tenths of full scale, a time or an energy as the exact fraction n/d. *)

Rat(n, d) == [n |-> n, d |-> d]
RatEq(a, b) == a.n * b.d = b.n * a.d
RatLess(a, b) == a.n * b.d < b.n * a.d
RatGeq(a, b) == a.n * b.d >= b.n * a.d

Min(a, b) == IF a <= b THEN a ELSE b

SampleRates == {1, 2, 10}
SampleValues == {0, 10}
RenderedValues == {0, 6, 10}

\* The AudioBuffers: sampleRate and the data of channel 0.
Buffers ==
    {[sampleRate |-> sr, data |-> d] :
        sr \in SampleRates, d \in SeqsUpTo(SampleValues, MaxSamples)}

\* buffer.duration
Duration(buffer) == Rat(Len(buffer.data), buffer.sampleRate)

RECURSIVE SumOfSquares(_)
SumOfSquares(segment) ==
    IF segment = <<>> THEN 0
    ELSE Head(segment) * Head(segment) + SumOfSquares(Tail(segment))

\* sumOfSquares / segment.length, of which rms is the square root; the root
\* keeps the order, and only the order of the energies is used.
MeanSquare(segment) == Rat(SumOfSquares(segment), Len(segment))

\* The first loop of analyzeEnergy from sample i on: the placeholder
\* segments and their energy levels.
RECURSIVE EnergyWindows(_, _)
EnergyWindows(buffer, i) ==
    LET data == buffer.data
        sampleRate == buffer.sampleRate
        samplesPerSegment == sampleRate * 1
    IN  IF ~(i < Len(data)) THEN <<>>
        ELSE LET segmentEnd == Min(i + samplesPerSegment, Len(data))
                 segment == SubSeq(data, i + 1, segmentEnd)
             IN  << [ startTime |-> Rat(i, sampleRate),
                      endTime |-> Rat(segmentEnd, sampleRate),
                      intensity |-> "low",
                      energy |-> MeanSquare(segment) ] >>
                 \o EnergyWindows(buffer, i + samplesPerSegment)

\* [...energyLevels].sort((a, b) => a - b)
RECURSIVE InsertSorted(_, _)
InsertSorted(sorted, x) ==
    IF sorted = <<>> THEN <<x>>
    ELSE IF RatLess(x, Head(sorted)) THEN <<x>> \o sorted
    ELSE <<Head(sorted)>> \o InsertSorted(Tail(sorted), x)

RECURSIVE SortAscending(_)
SortAscending(levels) ==
    IF levels = <<>> THEN <<>>
    ELSE InsertSorted(SortAscending(SubSeq(levels, 1, Len(levels) - 1)), levels[Len(levels)])

\* sortedEnergy[Math.floor(sortedEnergy.length * percent / 100)]
ThresholdAt(sortedEnergy, percent) ==
    sortedEnergy[((Len(sortedEnergy) * percent) \div 100) + 1]

\* The classification with > for >=.
ClassifyStrictlyAbove(energy, lowThreshold, highThreshold) ==
    IF RatLess(highThreshold, energy) THEN "high"
    ELSE IF RatLess(lowThreshold, energy) THEN "medium"
    ELSE "low"

\* The if-chain of the map callback of analyzeEnergy
Classify(energy, lowThreshold, highThreshold) ==
    IF RatGeq(energy, highThreshold) THEN "high"
    ELSE IF RatGeq(energy, lowThreshold) THEN "medium"
    ELSE "low"

Segment(window, intensity) ==
    [startTime |-> window.startTime, endTime |-> window.endTime, intensity |-> intensity]

\* The merge loop that pushes every segment as it is.
RECURSIVE MergeLoopNoMerge(_, _, _, _)
MergeLoopNoMerge(classifiedSegments, i, currentSegment, mergedSegments) ==
    IF ~(i < Len(classifiedSegments)) THEN Append(mergedSegments, currentSegment)
    ELSE LET nextSegment == classifiedSegments[i + 1] IN
         MergeLoopNoMerge(classifiedSegments, i + 1, nextSegment,
                          Append(mergedSegments, currentSegment))

\* The merge loop that forgets to push the last segment.
RECURSIVE MergeLoopDropsLast(_, _, _, _)
MergeLoopDropsLast(classifiedSegments, i, currentSegment, mergedSegments) ==
    IF ~(i < Len(classifiedSegments)) THEN mergedSegments
    ELSE LET nextSegment == classifiedSegments[i + 1] IN
         IF nextSegment.intensity = currentSegment.intensity
         THEN MergeLoopDropsLast(classifiedSegments, i + 1,
                        [currentSegment EXCEPT !.endTime = nextSegment.endTime],
                        mergedSegments)
         ELSE MergeLoopDropsLast(classifiedSegments, i + 1, nextSegment,
                        Append(mergedSegments, currentSegment))

\* The merge loop from index i on, and the final push.
RECURSIVE MergeLoop(_, _, _, _)
MergeLoop(classifiedSegments, i, currentSegment, mergedSegments) ==
    IF ~(i < Len(classifiedSegments)) THEN Append(mergedSegments, currentSegment)
    ELSE LET nextSegment == classifiedSegments[i + 1] IN
         IF nextSegment.intensity = currentSegment.intensity
         THEN MergeLoop(classifiedSegments, i + 1,
                        [currentSegment EXCEPT !.endTime = nextSegment.endTime],
                        mergedSegments)
         ELSE MergeLoop(classifiedSegments, i + 1, nextSegment,
                        Append(mergedSegments, currentSegment))

\* The segments of analyzeEnergy after classification.
ClassifiedSegments(buffer) ==
    LET windows == EnergyWindows(buffer, 0)
        energyLevels == [i \in DOMAIN windows |-> windows[i].energy]
        sortedEnergy == SortAscending(energyLevels)
        lowThreshold == ThresholdAt(sortedEnergy, 33)
        highThreshold == ThresholdAt(sortedEnergy, 66)
    IN  [i \in DOMAIN windows |->
            Segment(windows[i], Classify(energyLevels[i], lowThreshold, highThreshold))]

analyzeEnergy(buffer) ==
    IF Len(EnergyWindows(buffer, 0)) = 0 THEN <<>>
    ELSE LET classifiedSegments == ClassifiedSegments(buffer) IN
         MergeLoop(classifiedSegments, 1, classifiedSegments[1], <<>>)

\* const threshold = 0.6, in tenths
Threshold == 6

\* The peak scan from sample i on; a peak skips Math.floor(sampleRate * 0.1)
\* samples besides the loop's own step.
RECURSIVE PeakScan(_, _, _, _)
PeakScan(data, sampleRate, i, peaks) ==
    IF ~(i < Len(data)) THEN peaks
    ELSE IF data[i + 1] > Threshold
         THEN PeakScan(data, sampleRate, i + (sampleRate \div 10) + 1, Append(peaks, i))
         ELSE PeakScan(data, sampleRate, i + 1, peaks)

\* intervals.reduce((a, b) => a + b, 0) over the differences of neighbours,
\* in samples
RECURSIVE SumIntervals(_, _)
SumIntervals(peaks, i) ==
    IF ~(i < Len(peaks)) THEN 0
    ELSE (peaks[i + 1] - peaks[i]) + SumIntervals(peaks, i + 1)

\* Math.round of a positive fraction: halves go up.
MathRound(r) == (2 * r.n + r.d) \div (2 * r.d)

Beat(peakIndex, sampleRate) ==
    [timestamp |-> Rat(peakIndex, sampleRate), confidence |-> 1]

\* The result with the fallback taken for fewer than one peak.
BeatsOfPeaksOffByOne(peaks, sampleRate) ==
    IF Len(peaks) < 1 THEN [bpm |-> 120, beats |-> <<>>]
    ELSE LET averageInterval ==
                 Rat(SumIntervals(peaks, 1), sampleRate * (Len(peaks) - 1))
         IN  [ bpm |-> IF averageInterval.n = 0 THEN 0
                       ELSE MathRound(Rat(60 * averageInterval.d, averageInterval.n)),
               beats |-> [i \in DOMAIN peaks |-> Beat(peaks[i], sampleRate)] ]

\* What the then-callback of analyzeBeats returns for the peaks found.
BeatsOfPeaks(peaks, sampleRate) ==
    IF Len(peaks) < 2 THEN [bpm |-> 120, beats |-> <<>>]
    ELSE LET averageInterval ==
                 Rat(SumIntervals(peaks, 1), sampleRate * (Len(peaks) - 1))
         IN  [ bpm |-> MathRound(Rat(60 * averageInterval.d, averageInterval.n)),
               beats |-> [i \in DOMAIN peaks |-> Beat(peaks[i], sampleRate)] ]

\* analyzeBeats(buffer), given the rendered channel data.
analyzeBeats(buffer, rendered) ==
    BeatsOfPeaks(PeakScan(rendered, buffer.sampleRate, 0, <<>>), buffer.sampleRate)

NoBuffer == [sampleRate |-> 0, data |-> <<>>]
NotRun == [run |-> FALSE]
Ran(value) == [run |-> TRUE, value |-> value]

\* analyzeEnergy is applied to the buffer.
ApplyAnalyzeEnergy ==
    /\ anEnergy = NotRun
    /\ anEnergy' = Ran(analyzeEnergy(anBuffer))
    /\ UNCHANGED <<anBuffer, anRendered, anBeats>>
    /\ UNCHANGED <<seqVars, serviceVars, workerVars, appVars, audioVars, createVars, frameVars>>

\* startRendering() resolves and the then-callback of analyzeBeats runs.
ApplyAnalyzeBeats ==
    /\ anBeats = NotRun
    /\ anBeats' = Ran(analyzeBeats(anBuffer, anRendered))
    /\ UNCHANGED <<anBuffer, anRendered, anEnergy>>
    /\ UNCHANGED <<seqVars, serviceVars, workerVars, appVars, audioVars, createVars, frameVars>>

AnalysisInit ==
    /\ anBuffer = NoBuffer
    /\ anRendered = <<>>
    /\ anEnergy = NotRun
    /\ anBeats = NotRun

\* The two analyses on every buffer and every rendering of its length.
AnalysisInputs ==
    /\ anBuffer \in Buffers
    /\ anRendered \in [1..Len(anBuffer.data) -> RenderedValues]
    /\ anEnergy = NotRun
    /\ anBeats = NotRun

AnalysisNext ==
    \/ ApplyAnalyzeEnergy
    \/ ApplyAnalyzeBeats

-----------------------------------------------------------------------------
(* AudioUpload.handleSubmit, analyzeAudio and App.handleAudioSubmit.       *)

MsgCouldNotProcess == <<"Could", "not", "process", "the", "audio", "file">>
MsgAudioAnalysisFailed == <<"Audio", "Analysis", "Failed">>
MsgNoDuration == <<"Could", "not", "read", "audio", "duration">>

NoAudioAnalysis == [present |-> FALSE]

\* { duration: buffer.duration, ...beatAnalysis, energySegments }
AudioAnalysisOf(buffer, beatAnalysis, energySegments) ==
    [ present |-> TRUE,
      duration |-> Duration(buffer),
      bpm |-> beatAnalysis.bpm,
      beats |-> beatAnalysis.beats,
      energySegments |-> energySegments ]

\* What decodeAudioData can resolve with: a buffer of at least one frame.
DecodedBuffers == {b \in Buffers : Len(b.data) >= 1}

\* The rejections of decodeAudioData and of startRendering, kept apart from
\* every buffer and every channel data.
DecodeFailure == [sampleRate |-> -1, data |-> <<>>]
RenderFailure == <<-1>>

\* App.handleAudioSubmit(file, description, analysis)
handleAudioSubmit(analysis) ==
    /\ audioAnalysis' = analysis
    /\ step' = "VIDEO_UPLOAD"

\* The catch block of analyzeAudio re-throws, the catch block of
\* handleSubmit reports.
AudioCatch ==
    /\ uploadError' = MsgAudioAnalysisFailed
    /\ isAnalyzingAudio' = FALSE
    /\ audPc' = "idle"
    /\ UNCHANGED <<step, audioAnalysis>>

\* handleSubmit(e) of AudioUpload with a file and a description; analyzeAudio
\* and decodeAudioData run up to the first await.
handleSubmit(durationRead) ==
    /\ step = "AUDIO_UPLOAD"
    /\ audPc = "idle"
    /\ ~isAnalyzingAudio
    /\ submits < MaxSubmits
    /\ submits' = submits + 1
    /\ IF durationRead
       THEN /\ isAnalyzingAudio' = TRUE
            /\ uploadError' = <<>>
            /\ audPc' = "decoding"
            /\ decodeAttempts' = 1
       ELSE /\ uploadError' = MsgNoDuration
            /\ UNCHANGED <<isAnalyzingAudio, audPc, decodeAttempts>>
    /\ audBuffer' = NoBuffer
    /\ audRendered' = <<>>
    /\ audEnergy' = <<>>
    /\ UNCHANGED <<step, audioAnalysis>>
    /\ UNCHANGED <<seqVars, serviceVars, workerVars, appVars, analysisVars, createVars, frameVars>>

\* analyzeAudio that answers a failed decoding by decoding again.
decodeAudioDataSettlesRetries(decoded, contextOk) ==
    /\ audPc = "decoding"
    /\ IF decoded = DecodeFailure
       THEN /\ decodeAttempts' = decodeAttempts + 1
            /\ AudioCatch
            /\ UNCHANGED <<audBuffer, audEnergy>>
       ELSE /\ audBuffer' = decoded
            /\ IF contextOk
               THEN /\ audEnergy' = analyzeEnergy(decoded)
                    /\ audPc' = "rendering"
                    /\ UNCHANGED <<uploadError, isAnalyzingAudio, step, audioAnalysis>>
               ELSE /\ AudioCatch
                    /\ UNCHANGED audEnergy
            /\ UNCHANGED decodeAttempts
    /\ UNCHANGED <<audRendered, submits>>
    /\ UNCHANGED <<seqVars, serviceVars, workerVars, appVars, analysisVars, createVars, frameVars>>

\* decodeAudioData settles.  On a buffer analyzeAudio calls analyzeBeats,
\* whose OfflineAudioContext constructor can throw (contextOk), and then
\* analyzeEnergy, and waits for Promise.all.
decodeAudioDataSettles(decoded, contextOk) ==
    /\ audPc = "decoding"
    /\ IF decoded = DecodeFailure
       THEN /\ AudioCatch
            /\ UNCHANGED <<audBuffer, audEnergy>>
       ELSE /\ audBuffer' = decoded
            /\ IF contextOk
               THEN /\ audEnergy' = analyzeEnergy(decoded)
                    /\ audPc' = "rendering"
                    /\ UNCHANGED <<uploadError, isAnalyzingAudio, step, audioAnalysis>>
               ELSE /\ AudioCatch
                    /\ UNCHANGED audEnergy
    /\ UNCHANGED <<decodeAttempts, audRendered, submits>>
    /\ UNCHANGED <<seqVars, serviceVars, workerVars, appVars, analysisVars, createVars, frameVars>>

\* analyzeAudio that falls back to the default beat result when the
\* rendering fails.
startRenderingSettlesPartial(rendered) ==
    /\ audPc = "rendering"
    /\ audRendered' = rendered
    /\ IF rendered = RenderFailure
       THEN /\ handleAudioSubmit(
                   AudioAnalysisOf(audBuffer, [bpm |-> 120, beats |-> <<>>], audEnergy))
            /\ audPc' = "idle"
            /\ UNCHANGED <<uploadError, isAnalyzingAudio>>
       ELSE /\ handleAudioSubmit(
                   AudioAnalysisOf(audBuffer, analyzeBeats(audBuffer, rendered), audEnergy))
            /\ audPc' = "idle"
            /\ UNCHANGED <<uploadError, isAnalyzingAudio>>
    /\ UNCHANGED <<audBuffer, audEnergy, decodeAttempts, submits>>
    /\ UNCHANGED <<seqVars, serviceVars, workerVars, appVars, analysisVars, createVars, frameVars>>

\* startRendering() settles: the promise of analyzeBeats and with it
\* Promise.all; analyzeAudio returns and handleSubmit calls onSubmit, or both
\* catch blocks run.
startRenderingSettles(rendered) ==
    /\ audPc = "rendering"
    /\ audRendered' = rendered
    /\ IF rendered = RenderFailure
       THEN AudioCatch
       ELSE /\ handleAudioSubmit(
                   AudioAnalysisOf(audBuffer, analyzeBeats(audBuffer, rendered), audEnergy))
            /\ audPc' = "idle"
            /\ UNCHANGED <<uploadError, isAnalyzingAudio>>
    /\ UNCHANGED <<audBuffer, audEnergy, decodeAttempts, submits>>
    /\ UNCHANGED <<seqVars, serviceVars, workerVars, appVars, analysisVars, createVars, frameVars>>

AudioInit ==
    /\ step = "AUDIO_UPLOAD"
    /\ audioAnalysis = NoAudioAnalysis
    /\ audPc = "idle"
    /\ audBuffer = NoBuffer
    /\ audRendered = <<>>
    /\ audEnergy = <<>>
    /\ decodeAttempts = 0
    /\ isAnalyzingAudio = FALSE
    /\ uploadError = <<>>
    /\ submits = 0

AudioNext ==
    \/ \E durationRead \in BOOLEAN : handleSubmit(durationRead)
    \/ \E decoded \in DecodedBuffers \cup {DecodeFailure}, contextOk \in BOOLEAN :
           decodeAudioDataSettles(decoded, contextOk)
    \/ \E rendered \in [1..Len(audBuffer.data) -> RenderedValues] \cup {RenderFailure} :
           startRenderingSettles(rendered)

-----------------------------------------------------------------------------
(* App.handleVideosSubmit and the create steps around it.                  *)

MsgAudioMissing == <<"Audio", "analysis", "data", "is", "missing">>
MsgVideoGenerationFailed == <<"Video", "Generation", "Failed">>

NoVideo == [present |-> FALSE]

\* files.some(f => f.name === clip.file.name && f.lastModified === clip.file.lastModified)
IsSubmitted(clip, files) ==
    \E i \in DOMAIN files :
        /\ files[i].name = clip.file.name
        /\ files[i].lastModified = clip.file.lastModified

\* clipLibrary.filter(...)
SelectedClipsMetadata(library, files) ==
    LET Keep(clip) == IsSubmitted(clip, files) IN SelectSeq(library, Keep)

\* clip.thumbnail: the image getClipMetadata drew for the clip
Thumbnail(clip) == <<"thumbnail", clip.file>>

\* firstClipIndex >= 0 && firstClipIndex < selectedClipsMetadata.length
InRange(x, len) == x.k = "fin" /\ x.h >= 0 /\ x.h < 2 * len

\* Lines 125-139: the thumbnail, or the TypeError of reading .thumbnail of
\* undefined when the index is in range and not an integer.
ThumbnailOf(selectedClipsMetadata, editDecisionList) ==
    IF Len(selectedClipsMetadata) > 0
    THEN IF Len(editDecisionList) > 0
         THEN LET firstClipIndex == editDecisionList[1].clipIndex IN
              IF InRange(firstClipIndex, Len(selectedClipsMetadata))
              THEN IF firstClipIndex.h % 2 = 0
                   THEN [ok |-> TRUE,
                         thumbnail |-> Thumbnail(selectedClipsMetadata[(firstClipIndex.h \div 2) + 1])]
                   ELSE [ok |-> FALSE, message |-> MsgTypeError]
              ELSE [ok |-> TRUE, thumbnail |-> Thumbnail(selectedClipsMetadata[1])]
         ELSE [ok |-> TRUE, thumbnail |-> Thumbnail(selectedClipsMetadata[1])]
    ELSE [ok |-> TRUE, thumbnail |-> <<>>]

\* The oracle's answers used for handleVideosSubmit: a request that fails, a
\* reply without text or JSON, a bare value, the empty list, and the lists
\* of one entry with each clipIndex.
CreateResponses ==
    {[kind |-> "apiError", message |-> MsgApiBlocked], [kind |-> "noText"], [kind |-> "notJson"]}
    \cup {[kind |-> "json", value |-> v] : v \in {JNull, JArr(<<>>), JArr(<<JNull>>)}}
    \cup {[kind |-> "json", value |-> JArr(<<JObj(ci, JNum(4), JStr("cut"))>>)] :
             ci \in ClipIndexValues}

\* The analyses AudioUpload hands over, of two buffers.
SubmittedAnalyses ==
    { AudioAnalysisOf(b, analyzeBeats(b, b.data), analyzeEnergy(b)) :
        b \in { [sampleRate |-> 1, data |-> <<10, 0, 10>>],
                [sampleRate |-> 2, data |-> <<0, 10>>] } }

\* The clip libraries left by one batch of handleClipsAdded.
Libraries == {MapMetadata(fs) : fs \in SeqsUpTo(Files, MaxBatch)}

\* The state an invocation of handleVideosSubmit leaves behind when it ends.
CallOver(g) ==
    /\ vidPc' = [vidPc EXCEPT ![g] = "idle"]
    /\ vidFiles' = [vidFiles EXCEPT ![g] = <<>>]
    /\ vidSelected' = [vidSelected EXCEPT ![g] = <<>>]
    /\ vidNewVideo' = [vidNewVideo EXCEPT ![g] = NoVideo]
    /\ vidAudioAnalysis' = [vidAudioAnalysis EXCEPT ![g] = NoAudioAnalysis]

\* The catch block of handleVideosSubmit, with which invocation g ends.
VideosCatch(g, message) ==
    /\ clipError' = MsgVideoGenerationFailed \o message
    /\ step' = "VIDEO_UPLOAD"
    /\ CallOver(g)

\* onSubmit of AudioUpload reaches handleAudioSubmit.
AudioSubmitted(analysis) ==
    /\ view = "CREATE"
    /\ step = "AUDIO_UPLOAD"
    /\ handleAudioSubmit(analysis)
    /\ UNCHANGED <<audPc, audBuffer, audRendered, audEnergy, decodeAttempts,
                   isAnalyzingAudio, uploadError, submits>>
    /\ UNCHANGED <<seqVars, serviceVars, workerVars, appVars, analysisVars, createVars, frameVars>>

\* onBack of VideoUpload
onBack ==
    /\ view = "CREATE"
    /\ step = "VIDEO_UPLOAD"
    /\ step' = "AUDIO_UPLOAD"
    /\ UNCHANGED <<audioAnalysis, audPc, audBuffer, audRendered, audEnergy, decodeAttempts,
                   isAnalyzingAudio, uploadError, submits>>
    /\ UNCHANGED <<seqVars, serviceVars, workerVars, appVars, analysisVars, createVars, frameVars>>

\* handleVideosSubmit(files) up to its await; createVideoSequence runs up to
\* the oracle request, or throws in getGenAI() when the API key is missing.
\* The invocation is the one numbered generations + 1.
handleVideosSubmit(files, apiKeySet) ==
    /\ generations < MaxGenerations
    /\ generations' = generations + 1
    /\ LET g == generations + 1 IN
       IF ~audioAnalysis.present
       THEN /\ clipError' = MsgAudioMissing
            /\ UNCHANGED <<step, vidPc, vidFiles, vidSelected, vidNewVideo,
                           vidAudioAnalysis, vidRequests>>
       ELSE LET selectedClipsMetadata == SelectedClipsMetadata(clipLibrary, files) IN
            IF apiKeySet
            THEN /\ step' = "PROCESSING"
                 /\ clipError' = <<>>
                 /\ vidPc' = [vidPc EXCEPT ![g] = "awaitSequence"]
                 /\ vidFiles' = [vidFiles EXCEPT ![g] = files]
                 /\ vidSelected' = [vidSelected EXCEPT ![g] = selectedClipsMetadata]
                 /\ vidAudioAnalysis' = [vidAudioAnalysis EXCEPT ![g] = audioAnalysis]
                 /\ vidRequests' = [vidRequests EXCEPT ![g] = 1]
                 /\ UNCHANGED vidNewVideo
            ELSE /\ VideosCatch(g, MsgApiKey)
                 /\ UNCHANGED vidRequests
    /\ UNCHANGED <<history, dbHistory, currentPreview, view>>
    /\ UNCHANGED <<clipLibrary, isProcessingClips, dbClips, calls>>
    /\ UNCHANGED <<audioAnalysis, audPc, audBuffer, audRendered, audEnergy, decodeAttempts,
                   isAnalyzingAudio, uploadError, submits>>
    /\ UNCHANGED <<seqVars, serviceVars, workerVars, analysisVars, frameVars>>

\* fileMap of VideoUpload: the files in their order, the first of each
\* `${file.name}-${file.lastModified}-${file.size}` only.
RECURSIVE FileMapValues(_, _)
FileMapValues(files, seen) ==
    IF files = <<>> THEN <<>>
    ELSE IF FileId(Head(files)) \in seen
         THEN FileMapValues(Tail(files), seen)
         ELSE <<Head(files)>> \o FileMapValues(Tail(files), seen \cup {FileId(Head(files))})

\* allSelectedFiles of VideoUpload
allSelectedFiles(newlyUploadedFiles, selectedLibraryIds, library) ==
    LET Selected(clip) == clip.id \in selectedLibraryIds
        chosen == SelectSeq(library, Selected)
        libraryFiles == [i \in DOMAIN chosen |-> chosen[i].file]
    IN  FileMapValues(newlyUploadedFiles \o libraryFiles, {})

\* handleSubmit of VideoUpload: onSubmit(allSelectedFiles) unless there is
\* no file.  The library is the one App holds while the uploads of this
\* screen are already in it, were refused as known, or have no metadata.
VideoUploadSubmit(newlyUploadedFiles, selectedLibraryIds, apiKeySet) ==
    /\ view = "CREATE"
    /\ step = "VIDEO_UPLOAD"
    /\ generations < MaxGenerations
    /\ LET files == allSelectedFiles(newlyUploadedFiles, selectedLibraryIds, clipLibrary) IN
       /\ Len(files) > 0
       /\ handleVideosSubmit(files, apiKeySet)

\* newVideo of handleVideosSubmit, in invocation g
NewVideo(g, editDecisionList, thumbnail) ==
    [ present |-> TRUE,
      id |-> g,
      videoFiles |-> vidFiles[g],
      editDecisionList |-> editDecisionList,
      thumbnail |-> thumbnail,
      audioAnalysis |-> vidAudioAnalysis[g] ]

\* handleVideosSubmit that asks the oracle a second time when the first
\* answer gave no usable sequence.
createVideoSequenceSettlesRetries(g, response) ==
    /\ vidPc[g] = "awaitSequence"
    /\ LET outcome == createVideoSequence(response, Len(vidSelected[g])) IN
       IF outcome.ok
       THEN LET made == ThumbnailOf(vidSelected[g], outcome.list) IN
            IF made.ok
            THEN /\ vidNewVideo' = [vidNewVideo EXCEPT
                                      ![g] = NewVideo(g, outcome.list, made.thumbnail)]
                 /\ vidPc' = [vidPc EXCEPT ![g] = "awaitDb"]
                 /\ UNCHANGED <<clipError, step, vidFiles, vidSelected, vidAudioAnalysis,
                                vidRequests>>
            ELSE /\ VideosCatch(g, made.message)
                 /\ UNCHANGED vidRequests
       ELSE /\ VideosCatch(g, outcome.message)
            /\ vidRequests' = [vidRequests EXCEPT ![g] = @ + 1]
    /\ UNCHANGED <<history, dbHistory, currentPreview, generations, view>>
    /\ UNCHANGED <<clipLibrary, isProcessingClips, dbClips, calls>>
    /\ UNCHANGED <<audioAnalysis, audPc, audBuffer, audRendered, audEnergy, decodeAttempts,
                   isAnalyzingAudio, uploadError, submits>>
    /\ UNCHANGED <<seqVars, serviceVars, workerVars, analysisVars, frameVars>>

\* generateContent settles for invocation g: createVideoSequence finishes and
\* handleVideosSubmit resumes, up to `await db.addHistory` or through its
\* catch block.
createVideoSequenceSettles(g, response) ==
    /\ vidPc[g] = "awaitSequence"
    /\ LET outcome == createVideoSequence(response, Len(vidSelected[g])) IN
       IF outcome.ok
       THEN LET made == ThumbnailOf(vidSelected[g], outcome.list) IN
            IF made.ok
            THEN /\ vidNewVideo' = [vidNewVideo EXCEPT
                                      ![g] = NewVideo(g, outcome.list, made.thumbnail)]
                 /\ vidPc' = [vidPc EXCEPT ![g] = "awaitDb"]
                 /\ UNCHANGED <<clipError, step, vidFiles, vidSelected, vidAudioAnalysis>>
            ELSE VideosCatch(g, made.message)
       ELSE VideosCatch(g, outcome.message)
    /\ UNCHANGED <<vidRequests, history, dbHistory, currentPreview, generations, view>>
    /\ UNCHANGED <<clipLibrary, isProcessingClips, dbClips, calls>>
    /\ UNCHANGED <<audioAnalysis, audPc, audBuffer, audRendered, audEnergy, decodeAttempts,
                   isAnalyzingAudio, uploadError, submits>>
    /\ UNCHANGED <<seqVars, serviceVars, workerVars, analysisVars, frameVars>>

\* db.addHistory(newVideo) settles and invocation g of handleVideosSubmit ends.
addHistorySettles(g, ok) ==
    /\ vidPc[g] = "awaitDb"
    /\ IF ok
       THEN /\ dbHistory' = dbHistory \cup {vidNewVideo[g]}
            /\ history' = <<vidNewVideo[g]>> \o history
            /\ currentPreview' = vidNewVideo[g]
            /\ step' = "PREVIEW"
            /\ CallOver(g)
            /\ UNCHANGED clipError
       ELSE /\ VideosCatch(g, MsgDbError)
            /\ UNCHANGED <<dbHistory, history, currentPreview>>
    /\ UNCHANGED <<vidRequests, generations, view>>
    /\ UNCHANGED <<clipLibrary, isProcessingClips, dbClips, calls>>
    /\ UNCHANGED <<audioAnalysis, audPc, audBuffer, audRendered, audEnergy, decodeAttempts,
                   isAnalyzingAudio, uploadError, submits>>
    /\ UNCHANGED <<seqVars, serviceVars, workerVars, analysisVars, frameVars>>

\* handleRestart that leaves the step as it is.
handleRestartKeepsStep ==
    /\ currentPreview' = NoVideo
    /\ clipError' = <<>>
    /\ audioAnalysis' = NoAudioAnalysis
    /\ view' = "CREATE"
    /\ UNCHANGED step
    /\ UNCHANGED <<history, dbHistory, vidPc, vidFiles, vidSelected, vidNewVideo,
                   vidAudioAnalysis, vidRequests, generations>>
    /\ UNCHANGED <<clipLibrary, isProcessingClips, dbClips, calls>>
    /\ UNCHANGED <<audPc, audBuffer, audRendered, audEnergy, decodeAttempts,
                   isAnalyzingAudio, uploadError, submits>>
    /\ UNCHANGED <<seqVars, serviceVars, workerVars, analysisVars, frameVars>>

\* handleRestart
handleRestart ==
    /\ step' = "AUDIO_UPLOAD"
    /\ currentPreview' = NoVideo
    /\ clipError' = <<>>
    /\ audioAnalysis' = NoAudioAnalysis
    /\ view' = "CREATE"
    /\ UNCHANGED <<history, dbHistory, vidPc, vidFiles, vidSelected, vidNewVideo,
                   vidAudioAnalysis, vidRequests, generations>>
    /\ UNCHANGED <<clipLibrary, isProcessingClips, dbClips, calls>>
    /\ UNCHANGED <<audPc, audBuffer, audRendered, audEnergy, decodeAttempts,
                   isAnalyzingAudio, uploadError, submits>>
    /\ UNCHANGED <<seqVars, serviceVars, workerVars, analysisVars, frameVars>>

\* onRestart of the PreviewPlayer, which the preview step shows when there
\* is a currentPreview.
onRestart ==
    /\ view = "CREATE"
    /\ step = "PREVIEW"
    /\ currentPreview.present
    /\ handleRestart

\* The navigation buttons that only set the view: "History", "My Clips",
\* and "Create New" outside the preview step.
setView(v) ==
    /\ v = "CREATE" => step # "PREVIEW"
    /\ view # v
    /\ view' = v
    /\ UNCHANGED <<history, dbHistory, currentPreview, vidPc, vidFiles, vidSelected,
                   vidNewVideo, vidAudioAnalysis, vidRequests, generations>>
    /\ UNCHANGED <<seqVars, serviceVars, workerVars, appVars, analysisVars, audioVars, frameVars>>

\* "Create New" in the preview step: setView(CREATE), then handleRestart().
CreateNewRestarts ==
    /\ step = "PREVIEW"
    /\ handleRestart

\* handleViewHistoryItem(video), for an entry of the HistoryView
handleViewHistoryItem(video) ==
    /\ view = "HISTORY"
    /\ currentPreview' = video
    /\ view' = "CREATE"
    /\ step' = "PREVIEW"
    /\ UNCHANGED <<history, dbHistory, vidPc, vidFiles, vidSelected, vidNewVideo,
                   vidAudioAnalysis, vidRequests, generations>>
    /\ UNCHANGED <<audioAnalysis, audPc, audBuffer, audRendered, audEnergy, decodeAttempts,
                   isAnalyzingAudio, uploadError, submits>>
    /\ UNCHANGED <<seqVars, serviceVars, workerVars, appVars, analysisVars, frameVars>>

CreateVarsInit ==
    /\ history = <<>>
    /\ dbHistory = {}
    /\ currentPreview = NoVideo
    /\ vidPc = [g \in 1..MaxGenerations |-> "idle"]
    /\ vidFiles = [g \in 1..MaxGenerations |-> <<>>]
    /\ vidSelected = [g \in 1..MaxGenerations |-> <<>>]
    /\ vidNewVideo = [g \in 1..MaxGenerations |-> NoVideo]
    /\ vidAudioAnalysis = [g \in 1..MaxGenerations |-> NoAudioAnalysis]
    /\ vidRequests = [g \in 1..MaxGenerations |-> 0]
    /\ generations = 0
    /\ view = "CREATE"

CreateNext ==
    \/ \E analysis \in SubmittedAnalyses : AudioSubmitted(analysis)
    \/ onBack
    \/ \E newlyUploadedFiles \in SeqsUpTo(Files, MaxBatch),
          selectedLibraryIds \in SUBSET {clipLibrary[i].id : i \in DOMAIN clipLibrary},
          apiKeySet \in BOOLEAN :
            VideoUploadSubmit(newlyUploadedFiles, selectedLibraryIds, apiKeySet)
    \/ \E g \in 1..MaxGenerations, response \in CreateResponses :
          createVideoSequenceSettles(g, response)
    \/ \E g \in 1..MaxGenerations, ok \in BOOLEAN : addHistorySettles(g, ok)
    \/ onRestart


-----------------------------------------------------------------------------
(* The worker script: the frame times of self.onmessage.  A JavaScript     *)
(* number is an IEEE 754 double; a positive finite one is kept as          *)
(* [m, e] for the value m * 2^e, with m a natural number of at most 53     *)
(* bits (2^53 itself included).  A natural number is kept as its digits    *)
(* in base 2^15, lowest first, without leading zeros.  Durations are far   *)
(* from the subnormal and the overflow range.                              *)

LimbBits == 15
Base == 2 ^ LimbBits
Precision == 53

Limb(n, i) == IF i <= Len(n) THEN n[i] ELSE 0
Rest(n) == IF n = <<>> THEN <<>> ELSE Tail(n)
Small(k) == IF k = 0 THEN <<>> ELSE <<k>>

RECURSIVE Normal(_)
Normal(n) ==
    IF n # <<>> /\ n[Len(n)] = 0 THEN Normal(SubSeq(n, 1, Len(n) - 1)) ELSE n

RECURSIVE AddNat(_, _, _)
AddNat(a, b, carry) ==
    IF a = <<>> /\ b = <<>>
    THEN Small(carry)
    ELSE LET sum == Limb(a, 1) + Limb(b, 1) + carry IN
         <<sum % Base>> \o AddNat(Rest(a), Rest(b), sum \div Base)

\* a - b - borrow, for a >= b + borrow
RECURSIVE SubDigits(_, _, _)
SubDigits(a, b, borrow) ==
    IF a = <<>>
    THEN <<>>
    ELSE LET diff == a[1] - Limb(b, 1) - borrow IN
         <<(diff + Base) % Base>> \o SubDigits(Tail(a), Rest(b), IF diff < 0 THEN 1 ELSE 0)

SubNat(a, b) == Normal(SubDigits(a, b, 0))

\* a * k + carry, for a digit k
RECURSIVE MulSmall(_, _, _)
MulSmall(a, k, carry) ==
    IF a = <<>>
    THEN Small(carry)
    ELSE LET p == a[1] * k + carry IN
         <<p % Base>> \o MulSmall(Tail(a), k, p \div Base)

RECURSIVE MulNat(_, _)
MulNat(a, b) ==
    IF b = <<>>
    THEN <<>>
    ELSE LET high == MulNat(a, Tail(b)) IN
         Normal(AddNat(MulSmall(a, b[1], 0), IF high = <<>> THEN <<>> ELSE <<0>> \o high, 0))

\* -1, 0 or 1 as a < b, a = b or a > b
RECURSIVE CmpNat(_, _)
CmpNat(a, b) ==
    IF Len(a) # Len(b)
    THEN (IF Len(a) < Len(b) THEN -1 ELSE 1)
    ELSE IF a = <<>>
         THEN 0
         ELSE IF a[Len(a)] # b[Len(b)]
              THEN (IF a[Len(a)] < b[Len(b)] THEN -1 ELSE 1)
              ELSE CmpNat(Normal(SubSeq(a, 1, Len(a) - 1)), Normal(SubSeq(b, 1, Len(b) - 1)))

RECURSIVE BitsOf(_)
BitsOf(x) == IF x = 0 THEN 0 ELSE 1 + BitsOf(x \div 2)

BitLength(n) == IF n = <<>> THEN 0 ELSE (Len(n) - 1) * LimbBits + BitsOf(n[Len(n)])

\* n * 2^s
ShiftLeft(n, s) ==
    IF n = <<>>
    THEN <<>>
    ELSE [i \in 1..(s \div LimbBits) |-> 0] \o MulSmall(n, 2 ^ (s % LimbBits), 0)

\* floor(n / 2^s)
ShiftRight(n, s) ==
    LET r == s % LimbBits
        kept == SubSeq(n, (s \div LimbBits) + 1, Len(n))
    IN  Normal([i \in 1..Len(kept) |->
                   (kept[i] \div (2 ^ r)) + (Limb(kept, i + 1) % (2 ^ r)) * (2 ^ (LimbBits - r))])

\* n mod 2^s
LowBits(n, s) ==
    LET whole == s \div LimbBits IN
    IF whole >= Len(n)
    THEN n
    ELSE Normal(SubSeq(n, 1, whole) \o <<n[whole + 1] % (2 ^ (s % LimbBits))>>)

IsOdd(n) == n # <<>> /\ n[1] % 2 = 1

\* The double nearest to n * 2^e, ties to the even significand: the
\* rounding of every arithmetic operation on numbers.
RoundToNearest(n, e) ==
    IF BitLength(n) <= Precision
    THEN [m |-> n, e |-> e]
    ELSE LET s == BitLength(n) - Precision
             q == ShiftRight(n, s)
             half == CmpNat(LowBits(n, s), ShiftLeft(<<1>>, s - 1))
         IN  [m |-> IF half > 0 \/ (half = 0 /\ IsOdd(q)) THEN AddNat(q, <<1>>, 0) ELSE q,
              e |-> e + s]

\* x * y
Times(x, y) == RoundToNearest(MulNat(x.m, y.m), x.e + y.e)

\* the significand of x with the exponent lowered to e
Aligned(x, e) == ShiftLeft(x.m, x.e - e)

\* x < y
LessThan(x, y) ==
    LET e == IF x.e < y.e THEN x.e ELSE y.e IN
    CmpNat(Aligned(x, e), Aligned(y, e)) < 0

\* x - y, for x > y
Minus(x, y) ==
    LET e == IF x.e < y.e THEN x.e ELSE y.e IN
    RoundToNearest(SubNat(Aligned(x, e), Aligned(y, e)), e)

\* x / 2
DividedByTwo(x) == [m |-> x.m, e |-> x.e - 1]

\* Math.min(x, y)
MathMin(x, y) == IF LessThan(y, x) THEN y ELSE x

\* The significand 0x1999999999999A of the literals 0.1, 0.2 and 0.8.
RepeatingNines == <<6554, 13107, 26214, 204>>

\* 0.1 = 0x1.999999999999ap-4
Tenth == [m |-> RepeatingNines, e |-> -56]
\* 0.2 = 0x1.999999999999ap-3
Fifth == [m |-> RepeatingNines, e |-> -55]
\* 0.8 = 0x1.999999999999ap-1
FourFifths == [m |-> RepeatingNines, e |-> -53]
\* 0.5
OneHalf == [m |-> <<1>>, e |-> -1]

\* t > 0.1 && t < duration - 0.1; when duration <= 0.1 the difference is
\* not positive and no positive t is below it.
FarFromEdges(t, duration) ==
    /\ LessThan(Tenth, t)
    /\ LessThan(Tenth, duration)
    /\ LessThan(t, Minus(duration, Tenth))

\* [0.2 * duration, 0.5 * duration, 0.8 * duration]
Candidates(duration) ==
    <<Times(Fifth, duration), Times(OneHalf, duration), Times(FourFifths, duration)>>

\* frameTimes of self.onmessage, for video.duration = duration
FrameTimes(duration) ==
    LET filtered == SelectSeq(Candidates(duration), LAMBDA t : FarFromEdges(t, duration)) IN
    IF Len(filtered) = 0
    THEN <<MathMin(Fifth, DividedByTwo(duration))>>
    ELSE filtered

\* The doubles k places above (below, for k < 0) 0.5 and 0.2.
NearOneHalf(k) ==
    IF k >= 0
    THEN [m |-> AddNat(ShiftLeft(<<1>>, 52), Small(k), 0), e |-> -53]
    ELSE [m |-> SubNat(ShiftLeft(<<1>>, 53), Small(-k)), e |-> -54]
NearFifth(k) ==
    IF k >= 0
    THEN [m |-> AddNat(RepeatingNines, Small(k), 0), e |-> -55]
    ELSE [m |-> SubNat(RepeatingNines, Small(-k)), e |-> -55]

\* The durations video.duration takes: the doubles around 0.5 s and 0.2 s,
\* the multiples of 1/8 s and the products n * 0.1.
Durations ==
    {NearOneHalf(k) : k \in -MaxUlps..MaxUlps}
    \cup {NearFifth(k) : k \in -MaxUlps..MaxUlps}
    \cup {[m |-> <<n>>, e |-> -3] : n \in 1..MaxTicks}
    \cup {Times([m |-> <<n>>, e |-> 0], Tenth) : n \in 1..MaxTicks}

NoDuration == [m |-> <<>>, e |-> 0]

\* ImageData.data of one pixel: r, g, b, alpha.
FrameDatas == {<<v, v, v, 255>> : v \in {0, 20, 60, 255}}

\* The labels classifyObjects tests, and one it does not.
Labels ==
    {"person", "car", "bus", "traffic light", "sports ball", "skateboard", "surfboard",
     "bird", "cat", "dog", "tree", "chair"}

\* objectPredictions, by class
ObjectPredictions == SeqsUpTo(Labels, MaxObjects)

\* the loop of calculateMotion, from byte i on
RECURSIVE SumOfDifferences(_, _, _)
SumOfDifferences(data1, data2, i) ==
    IF i > Len(data1)
    THEN 0
    ELSE LET abs(x) == IF x < 0 THEN -x ELSE x IN
         abs(data1[i] - data2[i]) + abs(data1[i + 1] - data2[i + 1])
            + abs(data1[i + 2] - data2[i + 2]) + SumOfDifferences(data1, data2, i + 4)

\* motionScore = diff / (data1.length * 3 * 255), compared with 0.1, 0.03
\* and 0.005 by cross-multiplication.
calculateMotion(frame1, frame2) ==
    LET diff == SumOfDifferences(frame1, frame2, 1)
        full == Len(frame1) * 3 * 255
    IN  IF diff * 10 > full THEN "high"
        ELSE IF diff * 100 > 3 * full THEN "medium"
        ELSE IF diff * 1000 > 5 * full THEN "low"
        ELSE "static"

\* classifyObjects that tests the vehicles before the person.
classifyObjectsUrbanFirst(objects) ==
    LET classes == {objects[i] : i \in DOMAIN objects} IN
    IF classes \cap {"car", "bus", "traffic light"} # {} THEN "urban"
    ELSE IF "person" \in classes THEN "people"
    ELSE IF classes \cap {"sports ball", "skateboard", "surfboard"} # {} THEN "action"
    ELSE IF classes \cap {"bird", "cat", "dog", "tree"} # {} THEN "nature"
    ELSE "other"

classifyObjects(objects) ==
    LET classes == {objects[i] : i \in DOMAIN objects} IN
    IF "person" \in classes THEN "people"
    ELSE IF classes \cap {"car", "bus", "traffic light"} # {} THEN "urban"
    ELSE IF classes \cap {"sports ball", "skateboard", "surfboard"} # {} THEN "action"
    ELSE IF classes \cap {"bird", "cat", "dog", "tree"} # {} THEN "nature"
    ELSE "other"

NotPosted == [posted |-> FALSE, success |-> FALSE, error |-> <<>>,
              dominantCategory |-> "", motionLevel |-> ""]
PostedError(message) == [NotPosted EXCEPT !.posted = TRUE, !.error = message]

\* self.onmessage from `const detectedObjects` to postMessage: the call of
\* analyzeSobel throws when the script declares no such function.
Metrics(frameDatas, objectPredictions) ==
    IF "analyzeSobel" \notin WorkerFunctions
    THEN PostedError(MsgNotDefined)
    ELSE [ posted |-> TRUE, success |-> TRUE, error |-> <<>>,
           dominantCategory |-> classifyObjects(objectPredictions),
           motionLevel |-> IF Len(frameDatas) > 1
                           THEN calculateMotion(frameDatas[1], frameDatas[Len(frameDatas)])
                           ELSE "static" ]

\* self.onmessage from `const duration = video.duration` to frameTimes.push
selfOnMessageFrameTimes ==
    /\ frameTimes = <<>>
    /\ frDuration # NoDuration
    /\ frameTimes' = FrameTimes(frDuration)
    /\ UNCHANGED <<frDuration, frPosted, clObjects, clCategory>>
    /\ UNCHANGED <<seqVars, serviceVars, workerVars, appVars, analysisVars, audioVars, createVars>>

\* The rest of self.onmessage: the frames are extracted (or one is not),
\* the detectors run, the metrics are computed, the result is posted.
selfOnMessageMetrics(framesOk, frameDatas, objectPredictions) ==
    /\ frameTimes # <<>>
    /\ ~frPosted.posted
    /\ Len(frameDatas) = Len(frameTimes)
    /\ frPosted' = IF framesOk
                   THEN Metrics(frameDatas, objectPredictions)
                   ELSE PostedError(MsgVideoFileError)
    /\ UNCHANGED <<frDuration, frameTimes, clObjects, clCategory>>
    /\ UNCHANGED <<seqVars, serviceVars, workerVars, appVars, analysisVars, audioVars, createVars>>

\* classifyObjects applied to a list of detected objects
ApplyClassifyObjects ==
    /\ clCategory = ""
    /\ clCategory' = classifyObjects(clObjects)
    /\ UNCHANGED <<frDuration, frameTimes, frPosted, clObjects>>
    /\ UNCHANGED <<seqVars, serviceVars, workerVars, appVars, analysisVars, audioVars, createVars>>

FramesInit ==
    /\ frDuration = NoDuration
    /\ frameTimes = <<>>
    /\ frPosted = NotPosted
    /\ clObjects = <<>>
    /\ clCategory = ""

FramesInputs ==
    /\ frDuration \in Durations
    /\ frameTimes = <<>>
    /\ frPosted = NotPosted
    /\ clObjects = <<>>
    /\ clCategory = ""

FramesNext ==
    \/ selfOnMessageFrameTimes
    \/ \E framesOk \in BOOLEAN, frameDatas \in [1..Len(frameTimes) -> FrameDatas],
          objectPredictions \in SeqsUpTo(Labels, 1) :
            selfOnMessageMetrics(framesOk, frameDatas, objectPredictions)

-----------------------------------------------------------------------------
(* Specifications.                                                         *)

ServiceInit ==
    /\ workerSupported \in BOOLEAN
    /\ worker = "null"
    /\ workersCreated = 0
    /\ runningTasks = <<>>
    /\ promises = [c \in 1..MaxCalls |-> NoPromise]
    /\ workerInbox = <<>>
    /\ workerTasks = <<>>
    /\ modelsLoaded = FALSE
    /\ loadBodyRuns = 0
    /\ mainInbox = <<>>

AppInit ==
    /\ clipLibrary = <<>>
    /\ isProcessingClips = FALSE
    /\ clipError = <<>>
    /\ dbClips = {}
    /\ calls = [c \in 1..MaxCalls |-> NoCall]

Init ==
    /\ SeqInit /\ ServiceInit /\ AppInit /\ AnalysisInit /\ AudioInit /\ CreateVarsInit
    /\ FramesInit

\* The App with a clip library from an earlier batch.
CreateInit ==
    /\ SeqInit /\ ServiceInit /\ AnalysisInit /\ AudioInit /\ CreateVarsInit
    /\ FramesInit
    /\ clipLibrary \in Libraries
    /\ isProcessingClips = FALSE
    /\ clipError = <<>>
    /\ dbClips = {}
    /\ calls = [c \in 1..MaxCalls |-> NoCall]

Next ==
    \/ \E c \in 1..MaxCalls, newFiles \in Batches : handleClipsAdded(c, newFiles)
    \/ \E c \in 1..MaxCalls, failed \in SUBSET (1..MaxBatch) :
           handleClipsAddedMetadata(c, failed)
    \/ \E c \in 1..MaxCalls, dbOk \in BOOLEAN : handleClipsAddedLoop(c, dbOk)
    \/ selfOnMessage
    \/ \E t \in DOMAIN workerTasks, ok \in BOOLEAN : loadModels(t, ok)
    \/ \E t \in DOMAIN workerTasks, framesOk \in BOOLEAN : selfOnMessageEnds(t, framesOk)
    \/ workerOnMessage

Spec == Init /\ [][Next]_vars

\* The worker's event loop runs self.onmessage for each message posted to it,
\* what the handler awaits settles, and the main thread's event loop runs
\* worker.onmessage for each message the worker posts.
SpecFair ==
    /\ Init
    /\ [][Next]_vars
    /\ WF_vars(selfOnMessage)
    /\ WF_vars(\E t \in DOMAIN workerTasks, ok \in BOOLEAN : loadModels(t, ok))
    /\ WF_vars(\E t \in DOMAIN workerTasks, framesOk \in BOOLEAN : selfOnMessageEnds(t, framesOk))
    /\ WF_vars(workerOnMessage)

SpecSeq == Init /\ [][SeqNext]_vars

\* analyzeEnergy and analyzeBeats about to be applied to a buffer.
InitAnalysis ==
    /\ SeqInit /\ ServiceInit /\ AppInit /\ AnalysisInputs /\ AudioInit /\ CreateVarsInit
    /\ FramesInit

SpecAnalysis == InitAnalysis /\ [][AnalysisNext]_vars

SpecAudio == Init /\ [][AudioNext]_vars

SpecCreate == CreateInit /\ [][CreateNext]_vars

\* AppView
Views == {"CREATE", "HISTORY", "CLIP_LIBRARY"}

\* The library of one clip.
NavLibrary == MapMetadata(<<[name |-> "a.mp4", lastModified |-> 1, size |-> 10]>>)

\* The oracle's answers used under navigation: a request that fails, and a
\* list of one valid entry.
NavResponses ==
    { [kind |-> "apiError", message |-> MsgApiBlocked],
      [kind |-> "json", value |-> JArr(<<JObj(JNum(0), JNum(4), JStr("cut"))>>)] }

\* The analysis AudioUpload hands over under navigation.
NavAnalysis ==
    LET b == [sampleRate |-> 2, data |-> <<0, 10>>]
    IN  AudioAnalysisOf(b, analyzeBeats(b, b.data), analyzeEnergy(b))

\* A video of an earlier session, as db.getHistory() returns it.
StoredVideo ==
    [ present |-> TRUE,
      id |-> 0,
      videoFiles |-> <<NavLibrary[1].file>>,
      editDecisionList |-> createVideoSequence(
          [kind |-> "json", value |-> JArr(<<JObj(JNum(0), JNum(4), JStr("cut"))>>)], 1).list,
      thumbnail |-> Thumbnail(NavLibrary[1]),
      audioAnalysis |-> NavAnalysis ]

\* The App once loadData has run: the history and the clips of the database
\* are in the state, the view is CREATE and the step AUDIO_UPLOAD.
NavInit ==
    /\ SeqInit /\ ServiceInit /\ AnalysisInit /\ AudioInit /\ FramesInit
    /\ clipLibrary = NavLibrary
    /\ isProcessingClips = FALSE
    /\ clipError = <<>>
    /\ dbClips = {NavLibrary[1]}
    /\ calls = [c \in 1..MaxCalls |-> NoCall]
    /\ \E stored \in {<<>>, <<StoredVideo>>} :
          /\ history = stored
          /\ dbHistory = {stored[i] : i \in DOMAIN stored}
    /\ currentPreview = NoVideo
    /\ vidPc = [g \in 1..MaxGenerations |-> "idle"]
    /\ vidFiles = [g \in 1..MaxGenerations |-> <<>>]
    /\ vidSelected = [g \in 1..MaxGenerations |-> <<>>]
    /\ vidNewVideo = [g \in 1..MaxGenerations |-> NoVideo]
    /\ vidAudioAnalysis = [g \in 1..MaxGenerations |-> NoAudioAnalysis]
    /\ vidRequests = [g \in 1..MaxGenerations |-> 0]
    /\ generations = 0
    /\ view = "CREATE"

\* The create steps under navigation: the user's actions in any order with
\* the settling of the requests in flight.
NavNext ==
    \/ AudioSubmitted(NavAnalysis)
    \/ onBack
    \/ \E selectedLibraryIds \in SUBSET {clipLibrary[i].id : i \in DOMAIN clipLibrary},
          apiKeySet \in BOOLEAN :
            VideoUploadSubmit(<<>>, selectedLibraryIds, apiKeySet)
    \/ \E g \in 1..MaxGenerations, response \in NavResponses :
          createVideoSequenceSettles(g, response)
    \/ \E g \in 1..MaxGenerations, ok \in BOOLEAN : addHistorySettles(g, ok)
    \/ onRestart
    \/ \E v \in Views : setView(v)
    \/ CreateNewRestarts
    \/ \E i \in DOMAIN history : handleViewHistoryItem(history[i])

SpecNav == NavInit /\ [][NavNext]_vars

\* The worker has read video.duration.
InitFrames ==
    /\ SeqInit /\ ServiceInit /\ AppInit /\ AnalysisInit /\ AudioInit /\ CreateVarsInit
    /\ FramesInputs

SpecFrames == InitFrames /\ [][FramesNext]_vars

\* classifyObjects about to be applied to a list of detected objects.
InitClassify ==
    /\ SeqInit /\ ServiceInit /\ AppInit /\ AnalysisInit /\ AudioInit /\ CreateVarsInit
    /\ frDuration = NoDuration
    /\ frameTimes = <<>>
    /\ frPosted = NotPosted
    /\ clObjects \in ObjectPredictions
    /\ clCategory = ""

SpecClassify == InitClassify /\ [][ApplyClassifyObjects]_vars


-----------------------------------------------------------------------------
(* Properties of createVideoSequence, checked under SpecSeq.               *)

SeqSettledOnJson == seqPc = "settled" /\ seqResponse.kind = "json"

\* A number that is an integer i with 0 <= i < len.
IsIndexBelow(x, len) ==
    /\ x.t = "number"
    /\ x.k = "fin"
    /\ x.h % 2 = 0
    /\ 0 <= x.h \div 2
    /\ x.h \div 2 < len

\* C1: for every clip count N >= 1, every returned decision has an integer
\* clipIndex with 0 <= clipIndex < N, whatever numeric raw clipIndex passed
\* the structural check.
C1_RepairedIndexInRange ==
    (seqPc = "settled" /\ seqOutcome.ok /\ seqClips >= 1)
        => \A i \in 1..Len(seqOutcome.list) :
               IsIndexBelow(seqOutcome.list[i].clipIndex, seqClips)

\* C2: no returned decision has an empty description.
C2_NoEmptyDescription ==
    (seqPc = "settled" /\ seqOutcome.ok)
        => \A i \in 1..Len(seqOutcome.list) :
               seqOutcome.list[i].description # JStr("")

C4_BareObjectAsOneElementList ==
    (SeqSettledOnJson /\ seqResponse.value.t = "object")
        => seqOutcome = createVideoSequence(
               [kind |-> "json", value |-> JArr(<<seqResponse.value>>)], seqClips)

-----------------------------------------------------------------------------
(* Properties of the analysis service and of handleClipsAdded, checked     *)
(* under Spec.                                                             *)

FileIds == {FileId(f) : f \in Files}

CountIn(seq, fileId) == Cardinality({i \in DOMAIN seq : seq[i].fileId = fileId})

\* The analysis requests for fileId that are posted and not yet answered to
\* the main thread's handler.
Outstanding(fileId) ==
    CountIn(workerInbox, fileId) + CountIn(workerTasks, fileId) + CountIn(mainInbox, fileId)

\* Invocation c calls analyzeVideoContent in this step.
Submits(c) == calls[c].pc # "awaitAnalysis" /\ calls'[c].pc = "awaitAnalysis"

\* The key of the file that c submits in this step.
SubmittedId(c) == FileId(calls'[c].trulyNewFiles[calls'[c].index])

\* The main thread's handler takes a result for a registered key in this step.
Completes == mainInbox # <<>> /\ mainInbox' = Tail(mainInbox)

WorkerErrors == {MsgLoadFailed, MsgVideoFileError, MsgNotDefined}

\* C6: while a key is in the in-flight registry exactly one analysis request
\* for it is posted and unanswered, however often it is submitted meanwhile;
\* a key that is not in the registry has none.
C6_OneRequestPerKeyInFlight ==
    \A k \in FileIds :
        Outstanding(k) = IF k \in DOMAIN runningTasks THEN 1 ELSE 0

C6_Witness ==
    \E c, d \in 1..MaxCalls :
        /\ c # d
        /\ promises[c].state = "pending"
        /\ promises[d] = Rejected(promises[c].fileId, MsgAlready)
        /\ runningTasks[promises[c].fileId] = c
        /\ Outstanding(promises[c].fileId) = 1

\* C7: a submission for a key that is in flight is rejected at once with the
\* "already being analyzed" error and changes neither the registry, the posted
\* requests nor any other promise; the promise in the registry is the one
\* settled with the worker's result.
C7_DuplicateRejected ==
    [][ /\ \A c \in 1..MaxCalls :
            (Submits(c) /\ SubmittedId(c) \in DOMAIN runningTasks)
                => /\ promises'[c] = Rejected(SubmittedId(c), MsgAlready)
                   /\ runningTasks' = runningTasks
                   /\ workerInbox' = workerInbox
                   /\ \A d \in 1..MaxCalls \ {c} : promises'[d] = promises[d]
        /\ (Completes /\ Head(mainInbox).fileId \in DOMAIN runningTasks)
                => LET data == Head(mainInbox)
                       original == runningTasks[data.fileId]
                   IN  /\ promises[original] = Pending(data.fileId)
                       /\ promises'[original].state =
                              (IF data.success THEN "resolved" ELSE "rejected")
                       /\ promises'[original].value =
                              (IF data.success THEN data.analysis ELSE data.error)
      ]_vars

C7_Witness ==
    \E c, d \in 1..MaxCalls :
        /\ c # d
        /\ promises[d] = Rejected(promises[c].fileId, MsgAlready)
        /\ promises[c].state = "rejected"
        /\ promises[c].value \in WorkerErrors

\* C8: the registry holds only keys whose promise is pending; the handler of
\* a result removes the key; a submission for a key that is not in the
\* registry is accepted and posted (when the worker exists).
C8_SettledTaskLeavesRegistry ==
    [][ /\ \A k \in DOMAIN runningTasks' : promises'[runningTasks'[k]] = Pending(k)
        /\ (Completes /\ Head(mainInbox).fileId \in DOMAIN runningTasks)
                => Head(mainInbox).fileId \notin DOMAIN runningTasks'
        /\ \A c \in 1..MaxCalls :
            (Submits(c) /\ SubmittedId(c) \notin DOMAIN runningTasks /\ worker' # "null")
                => /\ promises'[c] = Pending(SubmittedId(c))
                   /\ runningTasks' = MapSet(runningTasks, SubmittedId(c), c)
                   /\ Len(workerInbox') = Len(workerInbox) + 1
                   /\ workerInbox'[Len(workerInbox')].fileId = SubmittedId(c)
      ]_vars

\* A key analysed for c, failed by the worker, and in flight again for d.
C8_Witness ==
    \E c, d \in 1..MaxCalls :
        /\ c # d
        /\ calls[c].pc = "done"
        /\ calls[c].index = 1
        /\ calls[c].failed = {1}
        /\ calls[d].pc = "awaitAnalysis"
        /\ calls[d].trulyNewFiles[calls[d].index] = calls[c].trulyNewFiles[1]
        /\ promises[d] = Pending(FileId(calls[c].trulyNewFiles[1]))
        /\ runningTasks[FileId(calls[c].trulyNewFiles[1])] = d

\* C9: when handleClipsAdded has ended and the extraction of some clips of
\* its batch failed, every other clip of the batch was submitted for analysis.
C9_SiblingsStillAnalyzed ==
    \A c \in 1..MaxCalls :
        (calls[c].pc = "done" /\ calls[c].failed # {})
            => \A j \in (1..Len(calls[c].trulyNewFiles)) \ calls[c].failed :
                   j <= calls[c].index

\* C10: the worker is constructed at most once and the loading body of
\* loadModels is entered at most once.
C10_InitialisedAtMostOnce ==
    /\ workersCreated <= 1
    /\ loadBodyRuns <= 1

\* Invocation c of handleClipsAdded starts with batch newFiles in this step.
Starts(c, newFiles) ==
    /\ calls[c].pc = "unused"
    /\ calls'[c].pc # "unused"
    /\ LET existingIds == {clipLibrary[i].id : i \in DOMAIN clipLibrary}
           IsNew(f) == ClipId(f) \notin existingIds
       IN  calls'[c].trulyNewFiles = SelectSeq(newFiles, IsNew)

\* C11: a file whose (name, modification time, size) differs from that of
\* every clip in the library is a new clip for handleClipsAdded: it is among
\* the files the invocation adds to the library and analyzes.
C11_TripleIsIdentity ==
    [][ \A c \in 1..MaxCalls, newFiles \in Batches :
            Starts(c, newFiles)
                => \A i \in DOMAIN newFiles :
                       (\A j \in DOMAIN clipLibrary : clipLibrary[j].file # newFiles[i])
                           => \E k \in DOMAIN calls'[c].trulyNewFiles :
                                  calls'[c].trulyNewFiles[k] = newFiles[i]
      ]_vars


\* The analyses started for the clip with key k (name, modification time and
\* size): the requests posted to the worker.
AnalysesStarted(k) ==
    Cardinality({ cj \in (1..MaxCalls) \X (1..MaxBatch) :
                     /\ cj[2] \in calls[cj[1]].posted
                     /\ FileId(calls[cj[1]].trulyNewFiles[cj[2]]) = k })

\* C12: under any interleaving of handleClipsAdded calls at most one analysis
\* is started for a clip, and an analysis attached to a clip of the
\* library is never replaced or removed afterwards.
C12_AnalysisOnceAndImmutable ==
    [][ /\ \A k \in FileIds : AnalysesStarted(k)' <= 1
        /\ \A i \in DOMAIN clipLibrary :
               clipLibrary[i].analysis # NoAnalysis
                   => /\ i \in DOMAIN clipLibrary'
                      /\ clipLibrary'[i].id = clipLibrary[i].id
                      /\ clipLibrary'[i].analysis = clipLibrary[i].analysis
      ]_vars

-----------------------------------------------------------------------------
(* Properties of analyzeEnergy and analyzeBeats, checked under             *)
(* SpecAnalysis.                                                           *)

\* C13: for a non-empty buffer the segments of analyzeEnergy partition
\* [0, duration]: the first starts at 0, each ends where the next starts, the
\* last ends at duration, and each has startTime < endTime; for an empty
\* buffer the result is the empty list.
C13_SegmentsPartitionDuration ==
    anEnergy.run =>
        IF Len(anBuffer.data) = 0
        THEN anEnergy.value = <<>>
        ELSE /\ Len(anEnergy.value) >= 1
             /\ RatEq(anEnergy.value[1].startTime, Rat(0, 1))
             /\ \A i \in 1..(Len(anEnergy.value) - 1) :
                    RatEq(anEnergy.value[i].endTime, anEnergy.value[i + 1].startTime)
             /\ RatEq(anEnergy.value[Len(anEnergy.value)].endTime, Duration(anBuffer))
             /\ \A i \in DOMAIN anEnergy.value :
                    RatLess(anEnergy.value[i].startTime, anEnergy.value[i].endTime)

\* Three segments, the last one closing a window shorter than a second.
C13_Witness ==
    /\ anEnergy.run
    /\ Len(anEnergy.value) = 3
    /\ Len(anBuffer.data) % anBuffer.sampleRate # 0
    /\ RatEq(anEnergy.value[3].endTime, Duration(anBuffer))

\* C14: no two adjacent segments returned by analyzeEnergy have the same
\* intensity.
C14_AdjacentIntensitiesDiffer ==
    anEnergy.run =>
        \A i \in 1..(Len(anEnergy.value) - 1) :
            anEnergy.value[i].intensity # anEnergy.value[i + 1].intensity

\* Neighbouring windows were classified alike and merged, others were not.
C14_Witness ==
    /\ anEnergy.run
    /\ Len(anEnergy.value) >= 2
    /\ Len(anEnergy.value) < Len(ClassifiedSegments(anBuffer))

\* bpm is the integer nearest to 60 / (mean interval), halves going up, where
\* the mean interval of the peaks is (last - first) / (count - 1) samples.
IsRoundedBpm(bpm, peaks, sampleRate) ==
    LET span == peaks[Len(peaks)] - peaks[1]
        perMinute == 60 * sampleRate * (Len(peaks) - 1)
    IN  /\ (2 * bpm - 1) * span <= 2 * perMinute
        /\ 2 * perMinute < (2 * bpm + 1) * span

\* C15: with fewer than 2 peaks found the result is bpm 120 and no beats;
\* with 2 or more, beats has one entry per peak, at the peak's time, and bpm
\* is round(60 / mean interval between consecutive peaks).
C15_BeatsFallbackAndBpm ==
    anBeats.run =>
        LET sampleRate == anBuffer.sampleRate
            peaks == PeakScan(anRendered, sampleRate, 0, <<>>)
        IN  IF Len(peaks) < 2
            THEN anBeats.value.bpm = 120 /\ anBeats.value.beats = <<>>
            ELSE /\ Len(anBeats.value.beats) = Len(peaks)
                 /\ \A i \in DOMAIN peaks :
                        RatEq(anBeats.value.beats[i].timestamp, Rat(peaks[i], sampleRate))
                 /\ IsRoundedBpm(anBeats.value.bpm, peaks, sampleRate)

\* Three peaks, found with the skip after a peak in effect.
C15_Witness ==
    /\ anBeats.run
    /\ anBuffer.sampleRate = 10
    /\ Len(anBeats.value.beats) = 3
    /\ anBeats.value.bpm # 120

-----------------------------------------------------------------------------
(* Properties of analyzeAudio and AudioUpload.handleSubmit, checked under  *)
(* SpecAudio.                                                              *)

\* onSubmit is called in this step.
Delivered == audioAnalysis' # audioAnalysis \/ step' # step

\* A sub-analysis fails in this step: analyzeBeats throws or its rendering
\* is rejected.
SubAnalysisFails ==
    \/ audPc = "rendering" /\ audRendered' = RenderFailure
    \/ audPc = "decoding" /\ audPc' = "idle" /\ audBuffer' # NoBuffer

\* C16: the AudioAnalysis handed to onSubmit and stored in the App state
\* holds the beat analysis and the energy segmentation of the one decoded
\* buffer; when a sub-analysis fails analyzeAudio fails and nothing is
\* delivered.
C16_NoPartialAudioAnalysis ==
    [][ /\ Delivered
            => /\ audPc = "rendering"
               /\ audRendered' # RenderFailure
               /\ audioAnalysis'.present
               /\ step' = "VIDEO_UPLOAD"
               /\ audioAnalysis'.duration = Duration(audBuffer)
               /\ audioAnalysis'.energySegments = analyzeEnergy(audBuffer)
               /\ [bpm |-> audioAnalysis'.bpm, beats |-> audioAnalysis'.beats]
                      = analyzeBeats(audBuffer, audRendered')
        /\ SubAnalysisFails
            => /\ ~Delivered
               /\ uploadError' = MsgAudioAnalysisFailed
      ]_vars

\* An analysis with several segments and several beats has been delivered.
C16_Witness ==
    /\ audioAnalysis.present
    /\ step = "VIDEO_UPLOAD"
    /\ Len(audioAnalysis.energySegments) >= 2
    /\ Len(audioAnalysis.beats) >= 2
    /\ audioAnalysis.energySegments = analyzeEnergy(audBuffer)

\* decodeAudioData is rejected in this step.
DecodeFails == audPc = "decoding" /\ audPc' = "idle" /\ audBuffer' = NoBuffer

\* C17: when decoding fails, it was attempted once, the error is set in
\* AudioUpload, onSubmit is not called, the step stays AUDIO_UPLOAD and
\* isAnalyzingAudio returns to false.
C17_DecodeFailureSurfaced ==
    [][ DecodeFails
            => /\ decodeAttempts' = 1
               /\ uploadError' = MsgAudioAnalysisFailed
               /\ ~Delivered
               /\ step' = "AUDIO_UPLOAD"
               /\ isAnalyzingAudio
               /\ ~isAnalyzingAudio'
      ]_vars

\* A second submit whose decoding failed like the first.
C17_Witness ==
    /\ submits = 2
    /\ audPc = "idle"
    /\ audBuffer = NoBuffer
    /\ decodeAttempts = 1
    /\ uploadError = MsgAudioAnalysisFailed
    /\ ~isAnalyzingAudio
    /\ step = "AUDIO_UPLOAD"
    /\ ~audioAnalysis.present

\* Invocation g of handleVideosSubmit leaves `await createVideoSequence`
\* through its catch block in this step.
SequenceAttemptFails(g) == vidPc[g] = "awaitSequence" /\ vidPc'[g] = "idle"

AnalysisRanOn(t) ==
    /\ workerTasks[t].pc = "analyzing"
    /\ workerTasks' = RemoveAt(workerTasks, t)
    /\ mainInbox' # mainInbox
    /\ mainInbox'[Len(mainInbox')].error # MsgVideoFileError

\* C19: for a clip whose frames decode and whose models are loaded, the
\* worker's task ends with success and an analysis, never with an error.
C19_GoodClipAnalysed ==
    [][ \A t \in DOMAIN workerTasks :
            AnalysisRanOn(t) => mainInbox'[Len(mainInbox')].success
      ]_vars

-----------------------------------------------------------------------------
(* Properties of the frame times, checked under SpecFrames.                *)

\* C20: the frame times are the candidates 0.2d, 0.5d, 0.8d lying more than
\* 0.1 s from both edges; there are three of them or one, never none or
\* two; and when every candidate is discarded the one sample is d/2.
C20_ThreeOrOneFrameTimes ==
    frameTimes # <<>>
        => LET far == SelectSeq(Candidates(frDuration),
                                LAMBDA t : FarFromEdges(t, frDuration)) IN
           /\ Len(frameTimes) \in {1, 3}
           /\ far # <<>> => frameTimes = far
           /\ far = <<>> => frameTimes = <<DividedByTwo(frDuration)>>

\* C21: when one frame was sampled, the worker's result carries motionLevel
\* 'static'.
C21_OneFrameIsStatic ==
    (frPosted.posted /\ Len(frameTimes) = 1 /\ frPosted.error # MsgVideoFileError)
        => frPosted.success /\ frPosted.motionLevel = "static"

-----------------------------------------------------------------------------
(* Properties of classifyObjects, checked under SpecClassify.              *)

\* The categories in the order of their precedence, each with its labels.
Precedence ==
    << [category |-> "people", labels |-> {"person"}],
       [category |-> "urban",  labels |-> {"car", "bus", "traffic light"}],
       [category |-> "action", labels |-> {"sports ball", "skateboard", "surfboard"}],
       [category |-> "nature", labels |-> {"bird", "cat", "dog", "tree"}] >>

\* C22: dominantCategory is the first category, in the order people, urban,
\* action, nature, one of whose labels was detected, and other when there
\* is none.
C22_FirstMatchingCategory ==
    clCategory # ""
        => LET classes == {clObjects[i] : i \in DOMAIN clObjects}
               matching == {r \in DOMAIN Precedence : Precedence[r].labels \cap classes # {}}
           IN  IF matching = {}
               THEN clCategory = "other"
               ELSE \E r \in matching :
                       /\ \A q \in matching : r <= q
                       /\ clCategory = Precedence[r].category

\* A car and a person: people.
C22_Witness ==
    /\ clObjects = <<"car", "person">>
    /\ clCategory = "people"

-----------------------------------------------------------------------------
(* Properties of the clip lists of handleVideosSubmit, checked under       *)
(* SpecCreate.                                                             *)

\* C23: the clip list handed to createVideoSequence and the videoFiles of
\* the video hold the same file at every position.
C23_SameFileAtEveryIndex ==
    \A g \in 1..MaxGenerations :
        vidPc[g] = "awaitSequence"
            => /\ Len(vidSelected[g]) = Len(vidFiles[g])
               /\ \A i \in DOMAIN vidFiles[g] : vidSelected[g][i].file = vidFiles[g][i]

\* clipIndex is an integer from 0 to len - 1.
ValidIndex(clipIndex, len) == InRange(clipIndex, len) /\ clipIndex.h % 2 = 0

\* C24: in every generated video each clipIndex is a valid index into its
\* videoFiles, and createVideoSequence is not called with an empty list.
C24_ClipIndexWithinVideoFiles ==
    /\ \A v \in DOMAIN history :
          \A d \in DOMAIN history[v].editDecisionList :
             ValidIndex(history[v].editDecisionList[d].clipIndex, Len(history[v].videoFiles))
    /\ \A g \in 1..MaxGenerations : vidPc[g] = "awaitSequence" => Len(vidSelected[g]) > 0

-----------------------------------------------------------------------------
(* The intensities of analyzeEnergy, checked under SpecAnalysis.           *)

\* C30: for a non-empty buffer at least one segment of analyzeEnergy has
\* intensity 'high', and with at most 3 windows no segment has intensity
\* 'low'.
C30_LoudestIsHigh ==
    (anEnergy.run /\ Len(anBuffer.data) > 0)
        => /\ \E i \in DOMAIN anEnergy.value : anEnergy.value[i].intensity = "high"
           /\ Len(EnergyWindows(anBuffer, 0)) <= 3
                => \A i \in DOMAIN anEnergy.value : anEnergy.value[i].intensity # "low"

\* Three windows of which the quietest is 'medium' and the others 'high'.
C30_Witness ==
    /\ anEnergy.run
    /\ Len(EnergyWindows(anBuffer, 0)) = 3
    /\ \E i \in DOMAIN anEnergy.value : anEnergy.value[i].intensity = "medium"
    /\ \E i \in DOMAIN anEnergy.value : anEnergy.value[i].intensity = "high"

-----------------------------------------------------------------------------
(* Termination of the analysis requests, checked under SpecFair.           *)

\* C29: every submission analyzeVideoContent accepted is eventually resolved
\* or rejected, and no key stays in the registry forever.
C29_AcceptedSubmissionSettles ==
    /\ \A c \in 1..MaxCalls :
          (promises[c].state = "pending") ~> (promises[c].state \in {"resolved", "rejected"})
    /\ \A k \in FileIds : (k \in DOMAIN runningTasks) ~> (k \notin DOMAIN runningTasks)

\* A submission the worker answered: its promise is rejected with the
\* worker's error and its key has left the registry, while another call's
\* submission is still pending.
C29_Witness ==
    \E c, d \in 1..MaxCalls :
        /\ promises[c].state = "rejected"
        /\ promises[c].value \in WorkerErrors
        /\ promises[c].fileId \notin DOMAIN runningTasks
        /\ promises[d].state = "pending"
        /\ promises[d].fileId \in DOMAIN runningTasks

-----------------------------------------------------------------------------
(* Properties of the create steps under navigation, checked under SpecNav. *)

\* C27: whenever the step is VIDEO_UPLOAD or PROCESSING, audioAnalysis is
\* not null.
C27_AnalysisWhileUploadingVideos ==
    step \in {"VIDEO_UPLOAD", "PROCESSING"} => audioAnalysis.present

\* C28: whenever the step is PREVIEW, currentPreview is not null; a step
\* that clears currentPreview is a restart, which moves the step to
\* AUDIO_UPLOAD in the same update.
C28_PreviewHasVideo ==
    /\ [](step = "PREVIEW" => currentPreview.present)
    /\ [][ (currentPreview.present /\ ~currentPreview'.present)
              => /\ step = "PREVIEW"
                 /\ step' = "AUDIO_UPLOAD"
                 /\ ~audioAnalysis'.present
                 /\ clipError' = <<>>
                 /\ view' = "CREATE"
         ]_vars

\* Two requests were in flight together; the second settled first, the
\* first one's video is in the preview and heads the history.
C28_Witness ==
    /\ step = "PREVIEW"
    /\ currentPreview.present
    /\ currentPreview.id = 1
    /\ Len(history) >= 2
    /\ history[1].id = 1
    /\ history[2].id = 2

-----------------------------------------------------------------------------
(* Further properties of handleClipsAdded, checked under Spec.             *)

\* C25: no two entries of the clip library have the same id.
C25_NoDuplicateIds ==
    \A i, j \in DOMAIN clipLibrary : i # j => clipLibrary[i].id # clipLibrary[j].id

\* handleClipsAdded call c has begun and not ended.
InProgress(c) == calls[c].pc \notin {"unused", "done"}

\* C26: isProcessingClips is true while a call of handleClipsAdded is in
\* progress.
C26_ProcessingWhileInProgress ==
    (\E c \in 1..MaxCalls : InProgress(c)) => isProcessingClips

====
